---- MODULE Spec2Model ----
(***************************************************************************)
(* A model of the Peel controller of src/src/peel.ts and of the geometric  *)
(* primitives it is built on (Point, LineSegment, BezierCurve, Circle,     *)
(* Polygon).                                                               *)
(*                                                                         *)
(* Numbers.  A JavaScript number is modelled as an exact rational <<n, d>> *)
(* in lowest terms with d > 0, or one of the IEEE specials <<0, 0>> (NaN), *)
(* <<1, 0>> (+Infinity) and <<-1, 0>> (-Infinity).  The rounding of IEEE   *)
(* doubles is not modelled: +, -, * and / are exact.  Math.sqrt is exact   *)
(* on the square of a rational, and elsewhere it is truncated to           *)
(* SqrtPrecision significant steps (a low-precision float).  Math.atan2 is *)
(* replaced by a rational approximation that is exact on the multiples of  *)
(* 45 degrees and monotone in between.  Signed zero is not modelled.       *)
(***************************************************************************)
EXTENDS Integers, Sequences, FiniteSets, TLC

\* ------------------------------------------------------------------------
\* Bounds of the model
\* ------------------------------------------------------------------------

\* Math.sqrt keeps this many steps per binade when the root is irrational.
SqrtPrecision == 32

\* The longest list of constraints the model lets addPeelConstraint build.
MaxConstraints == 2

\* ------------------------------------------------------------------------
\* Numbers
\* ------------------------------------------------------------------------

Abs(n) == IF n < 0 THEN -n ELSE n

Sgn(n) == IF n < 0 THEN -1 ELSE IF n > 0 THEN 1 ELSE 0

\* The greatest common divisor of a and b > 0 (b itself when a = 0).
RECURSIVE Gcd(_, _)
Gcd(a, b) == IF b = 0 THEN a ELSE Gcd(b, a % b)

Reduce(n, d, g) == <<n \div g, d \div g>>

\* The rational n/d (d # 0) in lowest terms.
Q(n, d) ==
  IF d > 0 THEN Reduce(n, d, Gcd(n, d)) ELSE Reduce(-n, -d, Gcd(n, -d))

Num(n) == <<n, 1>>

Zero == <<0, 1>>

One == <<1, 1>>

NaN == <<0, 0>>

Infinity == <<1, 0>>

IsFinite(a) == a[2] # 0

IsNaN(a) == a = NaN

NNeg(a) == <<-a[1], a[2]>>

\* The largest integer the model's arithmetic holds: 2^31 - 1.
MaxInt == 2 * 1073741823 + 1

\* A number that is not an integer, rounded to half as many steps (numerator
\* and denominator halved); an integer is left as it is.
Halved(a) == IF a[2] = 1 THEN a ELSE Q(a[1] \div 2, a[2] \div 2)

\* The infinity a sum or product of integers overflows to.
Overflow(n) == <<Sgn(n), 0>>

\* a + b for finite a and b, da and db being their denominators divided by
\* the greatest common divisor of the two.  The sum is exact as long as it
\* fits the integers of the model; past that the operands are rounded, and
\* a sum of integers that does not fit overflows to an infinity.
RECURSIVE AddRounded(_, _)
AddTerms(a, b, da, db) ==
  IF /\ Abs(a[1]) <= (MaxInt \div 2) \div db
     /\ Abs(b[1]) <= (MaxInt \div 2) \div da
     /\ da <= MaxInt \div b[2]
  THEN Q(a[1] * db + b[1] * da, da * b[2])
  ELSE IF a[2] = 1 /\ b[2] = 1 THEN Overflow(a[1] \div 2 + b[1] \div 2)
  ELSE AddRounded(Halved(a), Halved(b))

AddBy(a, b, g) == AddTerms(a, b, a[2] \div g, b[2] \div g)

AddRounded(a, b) == AddBy(a, b, Gcd(a[2], b[2]))

NAdd(a, b) ==
  IF a[2] # 0 /\ b[2] # 0 THEN AddRounded(a, b)
  ELSE IF a[2] # 0 THEN b
  ELSE IF b[2] # 0 \/ a = b THEN a
  ELSE NaN

NSub(a, b) == NAdd(a, NNeg(b))

\* a * b for finite a and b, ga and gb being the common divisors of the
\* numerator of the one and the denominator of the other; exact while it
\* fits, rounded past that as the sum is.
RECURSIVE MulRounded(_, _)
MulTerms(na, da, nb, db) ==
  IF (nb = 0 \/ Abs(na) <= MaxInt \div Abs(nb)) /\ da <= MaxInt \div db
  THEN <<na * nb, da * db>>
  ELSE IF da = 1 /\ db = 1 THEN Overflow(Sgn(na) * nb)
  ELSE MulRounded(Halved(<<na, da>>), Halved(<<nb, db>>))

MulBy(a, b, ga, gb) ==
  MulTerms(a[1] \div ga, a[2] \div gb, b[1] \div gb, b[2] \div ga)

MulRounded(a, b) == MulBy(a, b, Gcd(a[1], b[2]), Gcd(b[1], a[2]))

NMul(a, b) ==
  IF a[2] # 0 /\ b[2] # 0 THEN MulRounded(a, b)
  ELSE IF a[1] = 0 \/ b[1] = 0 THEN NaN
  ELSE Overflow(Sgn(a[1]) * b[1])

\* 1 / b for b other than NaN; 1 / 0 is +Infinity (zero is unsigned here).
Reciprocal(b) ==
  IF b[2] = 0 THEN Zero ELSE IF b[1] = 0 THEN Infinity ELSE Q(b[2], b[1])

NDiv(a, b) ==
  IF a[2] = 0 /\ b[2] = 0 THEN NaN ELSE NMul(a, Reciprocal(b))

\* a < b as JavaScript compares numbers: false as soon as one side is NaN,
\* which is when a - b is NaN, unless both are the same infinity.
\* n1/d1 < n2/d2 for positive denominators, compared exactly: by the integer
\* parts first, then by the reciprocals of the fractional parts.
RECURSIVE LessFraction(_, _, _, _)
LessFraction(n1, d1, n2, d2) ==
  IF n1 \div d1 # n2 \div d2 THEN n1 \div d1 < n2 \div d2
  ELSE IF n2 % d2 = 0 THEN FALSE
  ELSE IF n1 % d1 = 0 THEN TRUE
  ELSE LessFraction(d2, n2 % d2, d1, n1 % d1)

NLt(a, b) ==
  IF a[2] # 0 /\ b[2] # 0 THEN LessFraction(a[1], a[2], b[1], b[2])
  ELSE NSub(a, b)[1] < 0

NGt(a, b) == NLt(b, a)

\* a == b as JavaScript compares numbers: NaN equals nothing.
NEq(a, b) == ~IsNaN(a) /\ ~IsNaN(b) /\ a = b

NLe(a, b) == NLt(a, b) \/ (a = b /\ a # NaN)

NGe(a, b) == NLe(b, a)

NAbs(a) == <<Abs(a[1]), a[2]>>

\* Math.max and Math.min of two numbers.
MathMax(a, b) == IF IsNaN(a) \/ IsNaN(b) THEN NaN ELSE IF NLt(a, b) THEN b ELSE a

MathMin(a, b) == IF IsNaN(a) \/ IsNaN(b) THEN NaN ELSE IF NLt(b, a) THEN b ELSE a

\* The integer square root of n >= 0, by bisection on lo^2 <= n < hi^2.
RECURSIVE IsqrtIter(_, _, _)
IsqrtIter(n, lo, hi) ==
  IF hi - lo <= 1 THEN lo
  ELSE LET mid == (lo + hi) \div 2
       IN  IF mid * mid <= n THEN IsqrtIter(n, mid, hi) ELSE IsqrtIter(n, lo, mid)

Isqrt(n) == IsqrtIter(n, 0, IF n < 46340 THEN n + 1 ELSE 46341)

\* The e with 4^e <= n/d < 4^(e+1), for n, d > 0.
RECURSIVE Binade(_, _)
Binade(n, d) ==
  IF n >= 4 * d THEN Binade(n, 4 * d) + 1
  ELSE IF n < d THEN Binade(4 * n, d) - 1
  ELSE 0

RECURSIVE Pow(_, _)
Pow(b, e) == IF e = 0 THEN 1 ELSE b * Pow(b, e - 1)

\* n/d with both halved until neither exceeds 2^18 (the ratio is kept to five
\* digits): the operand of an irrational root, before it is truncated.
RECURSIVE Shrink(_, _)
Shrink(n, d) ==
  IF (n > 262144 \/ d > 262144) /\ n >= 2 /\ d >= 2
  THEN Shrink(n \div 2, d \div 2)
  ELSE <<n, d>>

\* Math.sqrt.  The root of an irrational: with 4^e <= a < 4^(e+1), the root of
\* a / 4^e truncated to a multiple of 1 / SqrtPrecision, times 2^e.
PowerOfTwo(e) == IF e >= 0 THEN Num(Pow(2, e)) ELSE Q(1, Pow(2, -e))

FloorOf(s) == s[1] \div s[2]

Mantissa(x) ==
  Q(Isqrt(FloorOf(NMul(x, Num(SqrtPrecision * SqrtPrecision)))), SqrtPrecision)

TruncatedRoot(a, e) == NMul(Mantissa(NMul(a, PowerOfTwo(-2 * e))), PowerOfTwo(e))

ShrunkRoot(b) == TruncatedRoot(Q(b[1], b[2]), Binade(b[1], b[2]))

\* rn and rd are the integer roots of the numerator and of the denominator.
RootFrom(a, rn, rd) ==
  IF rn * rn = a[1] /\ rd * rd = a[2] THEN <<rn, rd>>
  ELSE ShrunkRoot(Shrink(a[1], a[2]))

MathSqrt(a) ==
  IF a[2] = 0 THEN (IF a[1] > 0 THEN Infinity ELSE NaN)
  ELSE IF a[1] < 0 THEN NaN
  ELSE IF a[1] = 0 THEN Zero
  ELSE RootFrom(a, Isqrt(a[1]), Isqrt(a[2]))

\* Math.atan2(y, x) in degrees, as Point.radToDeg returns it: in [0, 360).  On
\* the first octant the arc tangent of z is taken as z * (61 - 16 * z) degrees,
\* which is 0 at 0 and 45 at 1 and increases in between; the other octants
\* follow by symmetry.
OctantDeg(z) == NMul(z, NSub(Num(61), NMul(Num(16), z)))

\* The angle of (ax, ay), both >= 0 and not both 0: in [0, 90].
QuadrantDeg(ax, ay) ==
  IF NLe(ay, ax) THEN OctantDeg(NDiv(ay, ax))
  ELSE NSub(Num(90), OctantDeg(NDiv(ax, ay)))

\* The angle of (x, y), q being the angle of (|x|, |y|).
UnfoldDeg(x, y, q) ==
  IF x[1] > 0 /\ y[1] >= 0 THEN q
  ELSE IF x[1] <= 0 /\ y[1] > 0 THEN NSub(Num(180), q)
  ELSE IF x[1] < 0 /\ y[1] <= 0 THEN NAdd(Num(180), q)
  ELSE NSub(Num(360), q)

Atan2Deg(y, x) ==
  IF x[2] = 0 \/ y[2] = 0 THEN NaN
  ELSE IF x[1] = 0 /\ y[1] = 0 THEN Zero
  ELSE UnfoldDeg(x, y, QuadrantDeg(NAbs(x), NAbs(y)))

\* ------------------------------------------------------------------------
\* General helpers
\* ------------------------------------------------------------------------

\* clamp(n): Math.max(0, Math.min(1, n)).
clamp(n) == MathMax(Zero, MathMin(One, n))

normalize(n, min, max) == NDiv(NSub(n, min), NSub(max, min))

\* ------------------------------------------------------------------------
\* Point
\* ------------------------------------------------------------------------

Pt(x, y) == [x |-> x, y |-> y]

PtI(x, y) == Pt(Num(x), Num(y))

PointAdd(p, q) == Pt(NAdd(p.x, q.x), NAdd(p.y, q.y))

PointSubtract(p, q) == Pt(NSub(p.x, q.x), NSub(p.y, q.y))

PointScale(p, n) == Pt(NMul(p.x, n), NMul(p.y, n))

PointGetLength(p) == MathSqrt(NAdd(NMul(p.x, p.x), NMul(p.y, p.y)))

PointGetAngle(p) == Atan2Deg(p.y, p.x)

\* p.rotate(deg) is Point.vector(p.getAngle() + deg, p.getLength()): the vector of
\* p's length at p's angle plus deg.  The three ways the program calls it are
\* modelled by the rotation each one amounts to.
\*
\* p.rotate(-90): (cos(a - 90), sin(a - 90)) * len = (sin a, -cos a) * len.
PointRotateMinus90(p) ==
  IF ~IsFinite(p.x) \/ ~IsFinite(p.y) THEN Pt(NaN, NaN) ELSE Pt(p.y, NNeg(p.x))

\* p.rotate(-u.getAngle()): p in the frame whose x axis points along u, len
\* being the length of u.  The angle of the zero vector is 0, so then p is kept.
RotateBackByLength(p, u, len) ==
  Pt(NDiv(NAdd(NMul(p.x, u.x), NMul(p.y, u.y)), len),
     NDiv(NSub(NMul(p.y, u.x), NMul(p.x, u.y)), len))

PointRotateBackBy(p, u) ==
  IF u.x = Zero /\ u.y = Zero THEN p
  ELSE RotateBackByLength(p, u, PointGetLength(u))

\* new Point(len, 0).rotate(d.getAngle()): the vector of length len along d.
PointAlong(len, d) ==
  IF d.x = Zero /\ d.y = Zero THEN Pt(len, Zero)
  ELSE PointScale(d, NDiv(len, PointGetLength(d)))

\* ------------------------------------------------------------------------
\* LineSegment
\* ------------------------------------------------------------------------

Seg(p1, p2) == [p1 |-> p1, p2 |-> p2]

\* LineSegment.EPSILON is 1 / EpsilonInverse.
EpsilonInverse == 1000000

LineGetVector(seg) == PointSubtract(seg.p2, seg.p1)

LineGetPointForTime(seg, t) == PointAdd(seg.p1, PointScale(LineGetVector(seg), t))

LineScale(seg, n) ==
  Seg(PointAdd(seg.p1, PointScale(PointSubtract(seg.p2, seg.p1), n)),
      PointAdd(seg.p2, PointScale(PointSubtract(seg.p1, seg.p2), n)))

LineGetAngle(seg) == PointGetAngle(LineGetVector(seg))

\* |d| < EPSILON, for a finite d.
WithinEpsilon(d) == Abs(d[1]) <= (d[2] - 1) \div EpsilonInverse

\* The determinant returned as computed, however small.
SnapToZero_Never(d) == d

\* The determinant once computed: one smaller than EPSILON is 0.
SnapToZero(d) == IF d[2] # 0 /\ WithinEpsilon(d) THEN Zero ELSE d

LineGetPointDeterminant(seg, p) ==
  SnapToZero(NSub(NMul(NSub(p.x, seg.p1.x), NSub(seg.p2.y, seg.p1.y)),
                  NMul(NSub(p.y, seg.p1.y), NSub(seg.p2.x, seg.p1.x))))

crossProduct(p1, p2) == NSub(NMul(p1.x, p2.y), NMul(p1.y, p2.x))

\* The intersection as a sequence: <<>> for null, <<p>> for the point p.
\* p1 is the start of the first segment, r its vector, t and u the times of
\* the intersection along the first and the second segment.
\* The time along the second segment left unchecked.
IntersectAtTimes_FirstTimeOnly(p1, r, t, u) ==
  IF NGe(t, Zero) /\ NLe(t, One) THEN <<PointAdd(p1, PointScale(r, t))>> ELSE <<>>

IntersectAtTimes(p1, r, t, u) ==
  IF NGe(t, Zero) /\ NLe(t, One) /\ NGe(u, Zero) /\ NLe(u, One)
  THEN <<PointAdd(p1, PointScale(r, t))>>
  ELSE <<>>

\* s is the vector of the second segment, w the vector from the start of
\* the first segment to the start of the second.
IntersectOver(p1, r, s, w, denominator) ==
  IF denominator = Zero THEN <<>>
  ELSE IntersectAtTimes(p1, r, NDiv(crossProduct(w, s), denominator),
                        NDiv(crossProduct(w, r), denominator))

IntersectVectors(p1, r, s, w) == IntersectOver(p1, r, s, w, crossProduct(r, s))

LineGetIntersectPoint(seg1, seg2) ==
  IntersectVectors(seg1.p1, PointSubtract(seg1.p2, seg1.p1),
                   PointSubtract(seg2.p2, seg2.p1), PointSubtract(seg2.p1, seg1.p1))

\* ------------------------------------------------------------------------
\* BezierCurve
\* ------------------------------------------------------------------------

Bezier(p1, c1, c2, p2) == [p1 |-> p1, c1 |-> c1, c2 |-> c2, p2 |-> p2]

NPow3(a) == NMul(a, NMul(a, a))

NSum4(a, b, c, d) == NAdd(NAdd(a, b), NAdd(c, d))

\* The point of the weights b0..b3 on the four points of the curve.
BezierBlend(bz, b0, b1, b2, b3) ==
  Pt(NSum4(NMul(b0, bz.p1.x), NMul(b1, bz.c1.x), NMul(b2, bz.c2.x), NMul(b3, bz.p2.x)),
     NSum4(NMul(b0, bz.p1.y), NMul(b1, bz.c1.y), NMul(b2, bz.c2.y), NMul(b3, bz.p2.y)))

\* u is 1 - t.
BezierAt(bz, t, u) ==
  BezierBlend(bz, NPow3(u), NMul(NMul(Num(3), t), NMul(u, u)),
              NMul(NMul(Num(3), NMul(t, t)), u), NPow3(t))

BezierGetPointForTime(bz, t) == BezierAt(bz, t, NSub(One, t))

\* ------------------------------------------------------------------------
\* Circle
\* ------------------------------------------------------------------------

Circle(center, radius) == [center |-> center, radius |-> radius]

CircleBoundingRectContainsPoint(c, p) ==
  /\ NGe(p.x, NSub(c.center.x, c.radius)) /\ NLe(p.x, NAdd(c.center.x, c.radius))
  /\ NGe(p.y, NSub(c.center.y, c.radius)) /\ NLe(p.y, NAdd(c.center.y, c.radius))

NSquare(a) == NMul(a, a)

\* containsPoint stopping at the bounding rectangle.
CircleContainsPoint_BoundingRectOnly(c, p) == CircleBoundingRectContainsPoint(c, p)

CircleContainsPoint(c, p) ==
  IF CircleBoundingRectContainsPoint(c, p)
  THEN NLe(NAdd(NSquare(NSub(c.center.x, p.x)), NSquare(NSub(c.center.y, p.y))),
           NSquare(c.radius))
  ELSE FALSE

\* The point left where it is.
CircleConstrainPoint_LeavesPoint(c, p) == p

CircleConstrainPoint(c, p) ==
  IF ~CircleContainsPoint(c, p)
  THEN PointAdd(c.center, PointAlong(c.radius, PointSubtract(p, c.center)))
  ELSE p

\* ------------------------------------------------------------------------
\* Polygon: the sequence of its points
\* ------------------------------------------------------------------------

RECURSIVE PolygonAreaSum(_, _)
PolygonAreaSum(points, i) ==
  IF i > Len(points) THEN Zero
  ELSE LET p    == points[i]
           next == points[(i % Len(points)) + 1]
       IN  NAdd(NSub(NMul(p.x, next.y), NMul(p.y, next.x)), PolygonAreaSum(points, i + 1))

\* The area without its sign.
PolygonGetArea_Absolute(points) == NAbs(NDiv(PolygonAreaSum(points, 1), Num(2)))

PolygonGetArea(points) == NDiv(PolygonAreaSum(points, 1), Num(2))

\* round(n): Math.round(n * PRECISION) / PRECISION, Math.round being
\* floor(x + 1/2).
PRECISION == 100

NFloor(a) == Num(a[1] \div a[2])

round(n) ==
  IF ~IsFinite(n) THEN n
  ELSE NDiv(NFloor(NAdd(NMul(n, Num(PRECISION)), Q(1, 2))), Num(PRECISION))

\* ------------------------------------------------------------------------
\* Peel: the instance is the record of its fields, a method is an operator
\* from the instance (and the arguments) to the instance after the call.
\* A field that holds undefined or a value is a sequence: <<>> or <<v>>.
\* threw names the exception the call ended in ("none" when it returned).
\* ------------------------------------------------------------------------

TOP_LEFT == 0

TOP_RIGHT == 1

BOTTOM_LEFT == 2

BOTTOM_RIGHT == 3

\* The arguments of setCorner, setPeelPosition and addPeelConstraint: none, a
\* corner id, or x and y.
NoArg == [kind |-> "none", id |-> 0, x |-> Zero, y |-> Zero]

IdArg(id) == [kind |-> "id", id |-> id, x |-> Zero, y |-> Zero]

XYArg(x, y) == [kind |-> "xy", id |-> 0, x |-> x, y |-> y]

\* Peel.Defaults, for the options the model reads, merged under the user's
\* options by setOptions.
Defaults ==
  [ corner |-> NoArg, mode |-> "none",
    rect |-> FALSE, polygon |-> FALSE, path |-> FALSE, circle |-> FALSE,
    topShadow |-> TRUE, topShadowBlur |-> Num(5), topShadowAlpha |-> Q(1, 2),
    topShadowOffsetX |-> Zero, topShadowOffsetY |-> One,
    topShadowCreatesShape |-> TRUE,
    backReflection |-> FALSE, backReflectionSize |-> Q(2, 100),
    backReflectionOffset |-> Zero, backReflectionAlpha |-> Q(15, 100),
    backReflectionDistribute |-> TRUE,
    backShadow |-> TRUE, backShadowSize |-> Q(4, 100),
    backShadowOffset |-> Zero, backShadowAlpha |-> Q(1, 10),
    backShadowDistribute |-> TRUE,
    bottomShadow |-> TRUE, bottomShadowSize |-> Q(3, 2),
    bottomShadowOffset |-> Zero, bottomShadowDarkAlpha |-> Q(7, 10),
    bottomShadowLightAlpha |-> Q(1, 10),
    bottomShadowDistribute |-> TRUE,
    setPeelOnInit |-> TRUE,
    clippingBoxScale |-> 4,
    flipConstraintOffset |-> 5 ]

getCenter(self) == Pt(Q(self.width, 2), Q(self.height, 2))

\* getCornerPoint with the two bits of the id exchanged: x read from bit 1 and
\* y from bit 0.
getCornerPoint_BitsExchanged(self, id) ==
  Pt(Num(((id \div 2) % 2) * self.width), Num((id % 2) * self.height))

getCornerPoint(self, id) ==
  Pt(Num((id % 2) * self.width), Num(((id \div 2) % 2) * self.height))

\* <<>> when no argument was given (args[0] is undefined).
getPointOrCorner(self, arg) ==
  IF arg.kind = "xy" THEN <<Pt(arg.x, arg.y)>>
  ELSE IF arg.kind = "id" THEN <<getCornerPoint(self, arg.id)>>
  ELSE <<>>

setCorner(self, arg) ==
  LET args == IF arg.kind = "none" THEN IdArg(BOTTOM_RIGHT) ELSE arg
  IN  [self EXCEPT !.corner = getPointOrCorner(self, args)[1]]

\* The comparator of calculateFlipConstraint returns a - b for two Circle
\* objects, which is NaN; Array.prototype.sort reads a NaN as 0.
FlipComparator(corner, a, b) == NaN

SortValue(v) == IF IsNaN(v) THEN Zero ELSE v

\* A stable insertion of index i into the sorted sequence of indices.
RECURSIVE InsertSorted(_, _, _, _)
InsertSorted(cs, corner, sorted, i) ==
  IF sorted = <<>> THEN <<i>>
  ELSE LET last == sorted[Len(sorted)]
       IN  IF NGt(SortValue(FlipComparator(corner, cs[last], cs[i])), Zero)
           THEN InsertSorted(cs, corner, SubSeq(sorted, 1, Len(sorted) - 1), i) \o <<last>>
           ELSE sorted \o <<i>>

RECURSIVE SortIndices(_, _, _)
SortIndices(cs, corner, n) ==
  IF n = 0 THEN <<>>
  ELSE InsertSorted(cs, corner, SortIndices(cs, corner, n - 1), n)

\* flipConstraint is the index in constraints of the circle it refers to, 0
\* for undefined (the list is empty).
FirstOf(arr) == IF arr = <<>> THEN 0 ELSE arr[1]

calculateFlipConstraint(self) ==
  [self EXCEPT !.flipConstraint =
     FirstOf(SortIndices(self.constraints, self.corner, Len(self.constraints)))]

addPeelConstraint(self, arg) ==
  LET p == getPointOrCorner(self, arg)
  IN  IF p = <<>> THEN [self EXCEPT !.threw = "TypeError"]
      ELSE LET radius == PointGetLength(PointSubtract(self.corner, p[1]))
           IN  calculateFlipConstraint(
                 [self EXCEPT !.constraints = Append(@, Circle(p[1], radius))])

setOption(self, key, value) ==
  [self EXCEPT !.options = [@ EXCEPT ![key] = value]]

\* The book preset adding its two constraints in the other order.
setMode_TopLeftFirst(self, mode) ==
  IF mode = "book"
  THEN LET s1 == addPeelConstraint(self, IdArg(TOP_LEFT))
           s2 == addPeelConstraint(s1, IdArg(BOTTOM_LEFT))
           s3 == setOption(s2, "backReflection", FALSE)
           s4 == setOption(s3, "backShadowDistribute", FALSE)
       IN  setOption(s4, "bottomShadowDistribute", FALSE)
  ELSE IF mode = "calendar"
  THEN addPeelConstraint(addPeelConstraint(self, IdArg(TOP_RIGHT)), IdArg(TOP_LEFT))
  ELSE self

setMode(self, mode) ==
  IF mode = "book"
  THEN LET s1 == addPeelConstraint(self, IdArg(BOTTOM_LEFT))
           s2 == addPeelConstraint(s1, IdArg(TOP_LEFT))
           s3 == setOption(s2, "backReflection", FALSE)
           s4 == setOption(s3, "backShadowDistribute", FALSE)
       IN  setOption(s4, "bottomShadowDistribute", FALSE)
  ELSE IF mode = "calendar"
  THEN addPeelConstraint(addPeelConstraint(self, IdArg(TOP_RIGHT)), IdArg(TOP_LEFT))
  ELSE self

\* The peel path: kind "none" (this.path is undefined), "line" or "bezier".
NoPath == [kind |-> "none", pts |-> <<>>]

\* setPeelPath dropping the configured path when the count of arguments is
\* neither 4 nor 8.
setPeelPath_ClearsPath(self, args) ==
  IF Len(args) = 4
  THEN [self EXCEPT !.path = [kind |-> "line",
          pts |-> <<Pt(args[1], args[2]), Pt(args[3], args[4])>>]]
  ELSE IF Len(args) = 8
  THEN [self EXCEPT !.path = [kind |-> "bezier",
          pts |-> <<Pt(args[1], args[2]), Pt(args[3], args[4]),
                    Pt(args[5], args[6]), Pt(args[7], args[8])>>]]
  ELSE [self EXCEPT !.path = NoPath]

\* args is the sequence of the call's arguments, all numbers.
setPeelPath(self, args) ==
  IF Len(args) = 4
  THEN [self EXCEPT !.path = [kind |-> "line",
          pts |-> <<Pt(args[1], args[2]), Pt(args[3], args[4])>>]]
  ELSE IF Len(args) = 8
  THEN [self EXCEPT !.path = [kind |-> "bezier",
          pts |-> <<Pt(args[1], args[2]), Pt(args[3], args[4]),
                    Pt(args[5], args[6]), Pt(args[7], args[8])>>]]
  ELSE self

PathGetPointForTime(path, t) ==
  IF path.kind = "line" THEN LineGetPointForTime(Seg(path.pts[1], path.pts[2]), t)
  ELSE BezierGetPointForTime(Bezier(path.pts[1], path.pts[2], path.pts[3], path.pts[4]), t)

setFadeThreshold(self, n) == [self EXCEPT !.fadeThreshold = <<n>>]

getScaledBox(self, scale) ==
  LET brScale == scale
      tlScale == scale - 1
      tl == PtI(-self.width * tlScale, -self.height * tlScale)
      tr == PtI( self.width * brScale, -self.height * tlScale)
      br == PtI( self.width * brScale,  self.height * brScale)
      bl == PtI(-self.width * tlScale,  self.height * brScale)
  IN  <<Seg(tl, tr), Seg(tr, br), Seg(br, bl), Seg(bl, tl)>>

flipPointHorizontally(self, p) ==
  Pt(NSub(p.x, NMul(NSub(p.x, getCenter(self).x), Num(2))), p.y)

\* The offset as a number; 0 stands for the undefined the code returns when it
\* applies none (the caller only tests it for truth).  nPosToConstraint is the
\* position relative to the constraint, in the frame of the corner.
OffsetAt(nPosToConstraint, offset) ==
  IF NGt(nPosToConstraint.x, Zero) /\ NGt(nPosToConstraint.y, Zero)
  THEN NMul(normalize(PointGetAngle(nPosToConstraint), Num(45), Zero), offset)
  ELSE Zero

\* The y of the rotated position is negated when the corner is across the
\* center from where the frame expects it.
NormalizedBy(cornerToCenter, rotated) ==
  IF NLt(NMul(cornerToCenter.x, cornerToCenter.y), Zero)
  THEN Pt(rotated.x, NNeg(rotated.y))
  ELSE rotated

getFlipConstraintOffset(self, i, pos) ==
  IF i = self.flipConstraint /\ self.options.flipConstraintOffset # 0
  THEN OffsetAt(
         NormalizedBy(PointSubtract(self.corner, getCenter(self)),
                      PointRotateBackBy(
                        PointSubtract(pos, self.constraints[i].center),
                        PointSubtract(self.corner, self.constraints[i].center))),
         Num(self.options.flipConstraintOffset))
  ELSE Zero

\* The circle the position is constrained to: the stored one, or a temporary
\* one of the reduced radius when there is an offset.
OffsetArea(stored, offset) ==
  IF offset # Zero /\ offset # NaN
  THEN Circle(stored.center, NSub(stored.radius, offset))
  ELSE stored

\* The forEach over this.constraints, from the i-th on.
RECURSIVE ConstrainFrom(_, _, _)
ConstrainFrom(self, i, pos) ==
  IF i > Len(self.constraints) THEN pos
  ELSE ConstrainFrom(self, i + 1,
         CircleConstrainPoint(
           OffsetArea(self.constraints[i], getFlipConstraintOffset(self, i, pos)), pos))

\* The constraints applied from the last added back to the first.
RECURSIVE ConstrainBackFrom(_, _, _)
ConstrainBackFrom(self, i, pos) ==
  IF i = 0 THEN pos
  ELSE ConstrainBackFrom(self, i - 1,
         CircleConstrainPoint(
           OffsetArea(self.constraints[i], getFlipConstraintOffset(self, i, pos)), pos))

getConstrainedPeelPosition_LastFirst(self, pos) ==
  ConstrainBackFrom(self, Len(self.constraints), pos)

getConstrainedPeelPosition(self, pos) == ConstrainFrom(self, 1, pos)

\* The segment around the midpoint, half being half of it.
SegmentAround(midpoint, half) ==
  Seg(PointAdd(midpoint, half), PointSubtract(midpoint, half))

\* Half of the peel line: halfToCorner turned by -90 degrees and stretched
\* to ten times the larger dimension.
PeelLineHalf(self, halfToCorner) ==
  PointScale(PointRotateMinus90(halfToCorner),
             NMul(NDiv(MathMax(Num(self.width), Num(self.height)),
                       PointGetLength(halfToCorner)), Num(10)))

\* halfToCorner is half the way from the point to the corner.
PeelLineThrough(self, point, halfToCorner) ==
  SegmentAround(PointAdd(point, halfToCorner),
                PeelLineHalf(self, IF halfToCorner.x = Zero /\ halfToCorner.y = Zero
                                   THEN PointSubtract(point, getCenter(self))
                                   ELSE halfToCorner))

getPeelLineSegment(self, point) ==
  PeelLineThrough(self, point, PointScale(PointSubtract(self.corner, point), Q(1, 2)))

\* The two polygons being filled: poly1 is top, poly2 is back (hasBack tells
\* whether a second polygon was passed).
NoPolygons == [top |-> <<>>, back |-> <<>>]

\* d is the determinant of p on the peel line.
DistributeBy(self, p, d, polys, hasBack) ==
  [ top  |-> IF NLe(d, Zero) THEN Append(polys.top, p) ELSE polys.top,
    back |-> IF NGe(d, Zero) /\ hasBack
             THEN Append(polys.back, flipPointHorizontally(self, p))
             ELSE polys.back ]

distributePointByPeelLine(self, p, polys, hasBack) ==
  DistributeBy(self, p, LineGetPointDeterminant(self.peelLineSegment[1], p),
               polys, hasBack)

\* polys holds the start of the side already; the intersection follows it.
DistributeIntersect(self, intersect, polys, hasBack) ==
  IF intersect = <<>> THEN polys
  ELSE distributePointByPeelLine(self, intersect[1], polys, hasBack)

distributeLineByPeelLine(self, seg, polys, hasBack) ==
  DistributeIntersect(self, LineGetIntersectPoint(self.peelLineSegment[1], seg),
                      distributePointByPeelLine(self, seg.p1, polys, hasBack), hasBack)

\* box.forEach(side => distributeLineByPeelLine(side, ...)), from side i on.
RECURSIVE DistributeBox(_, _, _, _, _)
DistributeBox(self, box, i, polys, hasBack) ==
  IF i > Len(box) THEN polys
  ELSE DistributeBox(self, box, i + 1,
                     distributeLineByPeelLine(self, box[i], polys, hasBack), hasBack)

getElementBox(self) == getScaledBox(self, 1)

getClippingBox(self) == getScaledBox(self, self.options.clippingBoxScale)

getTopClipPoints(self) == DistributeBox(self, getElementBox(self), 1, NoPolygons, FALSE).top

\* The area measured on the clipping box instead of the element box.
getTopClipArea_OfClippingBox(self) ==
  PolygonGetArea(DistributeBox(self, getClippingBox(self), 1, NoPolygons, FALSE).top)

getTopClipArea(self) == PolygonGetArea(getTopClipPoints(self))

getAmountClipped(self) ==
  LET topArea   == getTopClipArea(self)
      totalArea == Num(self.width * self.height)
  IN  normalize(topArea, totalArea, Zero)

\* SVGClip.setPoints: the points attribute holds the rounded coordinates.
RoundPoints(points) == [i \in 1..Len(points) |-> Pt(round(points[i].x), round(points[i].y))]

SetClipPoints(self, polys) ==
  [self EXCEPT !.topClip = RoundPoints(polys.top), !.backClip = RoundPoints(polys.back)]

setClipping(self) ==
  SetClipPoints(self, DistributeBox(self, getClippingBox(self), 1, NoPolygons, TRUE))

\* p turned by the angle of cosine c and sine s.
RotateByCosSin(p, c, s) ==
  Pt(NSub(NMul(p.x, c), NMul(p.y, s)), NAdd(NMul(p.x, s), NMul(p.y, c)))

\* n2 is the squared length of d; the cosine and sine of twice the angle of
\* d, reversed.
RotateDoubleOver(p, d, n2) ==
  RotateByCosSin(p, NNeg(NDiv(NSub(NSquare(d.x), NSquare(d.y)), n2)),
                 NNeg(NDiv(NMul(Num(2), NMul(d.x, d.y)), n2)))

\* p.rotate(r) for r = (d.getAngle() - 90) * 2, d the vector of the peel line:
\* the rotation by twice the angle of d, reversed.
PointRotateDoubleOf(p, d) ==
  IF d.x[2] = 0 \/ d.y[2] = 0 THEN Pt(NaN, NaN)
  ELSE IF d.x = Zero /\ d.y = Zero THEN Pt(NNeg(p.x), NNeg(p.y))
  ELSE RotateDoubleOver(p, d, NAdd(NSquare(d.x), NSquare(d.y)))

\* The css is applied to the back layer and then to the top shadow element,
\* which is undefined when a shape is set and topShadowCreatesShape is off.
ApplyBackCss(self, css) ==
  IF self.hasTopShadowElement
  THEN [self EXCEPT !.backTransform = <<css>>, !.topShadowTransform = <<css>>]
  ELSE [self EXCEPT !.backTransform = <<css>>, !.threw = "TypeError"]

\* t is the translation, r the rotation.
BackCss(t, r) == [x |-> round(t.x), y |-> round(t.y), r |-> round(r)]

setBackTransform(self, pos) ==
  ApplyBackCss(self,
    BackCss(PointSubtract(pos,
              PointRotateDoubleOf(flipPointHorizontally(self, self.corner),
                                  LineGetVector(self.peelLineSegment[1]))),
            NMul(NSub(self.peelLineRotation[1], Num(90)), Num(2))))

\* The corner the peel line faces and its opposite; with a NaN rotation no
\* branch is taken and getCornerPoint(undefined) is the point (0, 0).
\* The distance measured from the top left corner whatever the rotation.
FacingCorners_TopLeftOnly(rot) == <<TOP_LEFT, BOTTOM_RIGHT>>

FacingCorners(rot) ==
  IF NLt(rot, Num(90)) THEN <<TOP_RIGHT, BOTTOM_LEFT>>
  ELSE IF NLt(rot, Num(180)) THEN <<BOTTOM_RIGHT, TOP_LEFT>>
  ELSE IF NLt(rot, Num(270)) THEN <<BOTTOM_LEFT, TOP_RIGHT>>
  ELSE IF NLt(rot, Num(360)) THEN <<TOP_LEFT, BOTTOM_RIGHT>>
  ELSE <<TOP_LEFT, TOP_LEFT>>

OverflowDistance == 2

\* The distance measured from the opposing corner.
DistanceTo_FromOpposingCorner(intersect, corner, opposingCorner) ==
  IF intersect = <<>> THEN Num(OverflowDistance)
  ELSE NDiv(PointGetLength(PointSubtract(opposingCorner, intersect[1])),
            PointGetLength(PointSubtract(corner, opposingCorner)))

\* The distance of the intersection from the corner, over the diagonal.
DistanceTo(intersect, corner, opposingCorner) ==
  IF intersect = <<>> THEN Num(OverflowDistance)
  ELSE NDiv(PointGetLength(PointSubtract(corner, intersect[1])),
            PointGetLength(PointSubtract(corner, opposingCorner)))

DistanceBetween(self, corner, opposingCorner) ==
  DistanceTo(LineGetIntersectPoint(self.peelLineSegment[1],
                                   LineScale(Seg(corner, opposingCorner), Num(2))),
             corner, opposingCorner)

DistanceFacing(self, ids) ==
  DistanceBetween(self, getCornerPoint(self, ids[1]), getCornerPoint(self, ids[2]))

getPeelLineDistance(self) == DistanceFacing(self, FacingCorners(self.peelLineRotation[1]))

\* distribute of the general helpers: a multiplier of 0 is read as 1.
distribute(t, mult) ==
  NMul(NMul(IF mult = Zero \/ IsNaN(mult) THEN One ELSE mult, Num(2)),
       NSub(Q(1, 2), NAbs(NSub(t, Q(1, 2)))))

distributeOrLinear(n, dist, mult) == IF dist THEN distribute(n, mult) ELSE NMul(n, mult)

\* Math.pow for a whole exponent.
RECURSIVE MathPow(_, _)
MathPow(b, e) == IF e = 0 THEN One ELSE NMul(b, MathPow(b, e - 1))

exponential(n, exp, mult) == NMul(mult, clamp(NSub(MathPow(NAdd(One, n), exp), One)))

\* The shadow css as the record of its rounded parts; the spread is left out
\* when it is 0 or null.
getShadowCss(x, y, blur, spread, intensity) ==
  [ x |-> round(x), y |-> round(y), blur |-> round(blur),
    spread |-> IF spread = <<>> \/ spread[1] = Zero \/ IsNaN(spread[1])
               THEN <<>> ELSE <<round(spread[1])>>,
    intensity |-> round(intensity) ]

\* box-shadow of the top shadow element.
setBoxShadow(self, x, y, blur, spread, intensity) ==
  [self EXCEPT !.topBoxShadow = <<getShadowCss(x, y, blur, <<spread>>, intensity)>>]

\* filter: drop-shadow(...) of the top shadow element.
setDropShadow(self, x, y, blur, intensity) ==
  [self EXCEPT !.topDropShadow = <<getShadowCss(x, y, blur, <<>>, intensity)>>]

TopShadowOf(self, sX, sY, sBlur, sAlpha) ==
  IF self.usesBoxShadow
  THEN setBoxShadow(self, sX, sY, sBlur, Zero, sAlpha)
  ELSE setDropShadow(self, sX, sY, sBlur, sAlpha)

setTopShadow(self, t) ==
  IF ~self.options.topShadow THEN self
  ELSE TopShadowOf(self, self.options.topShadowOffsetX, self.options.topShadowOffsetY,
                   self.options.topShadowBlur,
                   exponential(t, 5, self.options.topShadowAlpha))

\* A colour stop: the colour, its alpha and its position in percent.
getColorStop(r, g, b, a, pos) ==
  [r |-> r, g |-> g, b |-> b, a |-> round(clamp(a)), pos |-> round(NMul(pos, Num(100)))]

getBlackStop(a, pos) == getColorStop(0, 0, 0, a, pos)

getWhiteStop(a, pos) == getColorStop(255, 255, 255, a, pos)

\* The background image: none, or the linear gradient of the stops.
BackgroundGradient(rotation, stops) ==
  IF Len(stops) = 0 THEN [none |-> TRUE, rotation |-> Zero, stops |-> <<>>]
  ELSE [none |-> FALSE, rotation |-> round(rotation), stops |-> stops]

canSetLinearEffect(self, name, t) == self.options[name] /\ NGt(t, Zero)

ReflectionStops(rAlpha, rStart, rMid, rStop) ==
  << getWhiteStop(Zero, Zero), getWhiteStop(Zero, rStart),
     getWhiteStop(rAlpha, rMid), getWhiteStop(Zero, rStop) >>

ReflectionFrom(rAlpha, rMid, rStop, reflectionSize) ==
  ReflectionStops(rAlpha, NSub(rMid, reflectionSize), rMid, rStop)

ReflectionOver(rAlpha, rStop, reflectionSize) ==
  ReflectionFrom(rAlpha, NSub(rStop, reflectionSize), rStop, reflectionSize)

setBackReflection(self, t) ==
  [self EXCEPT !.backReflectionImage =
     <<BackgroundGradient(NSub(Num(180), self.peelLineRotation[1]),
         IF canSetLinearEffect(self, "backReflection", t)
         THEN ReflectionOver(self.options.backReflectionAlpha,
                NSub(t, self.options.backReflectionOffset),
                distributeOrLinear(t, self.options.backReflectionDistribute,
                                   self.options.backReflectionSize))
         ELSE <<>>)>>]

\* The last stop transparent, as the one of the reflection is.
ShadowStops_EndsTransparent(sAlpha, shadowStart, shadowMid, shadowStop) ==
  << getBlackStop(Zero, Zero), getBlackStop(Zero, shadowStart),
     getBlackStop(sAlpha, shadowMid), getBlackStop(Zero, shadowStop) >>

ShadowStops(sAlpha, shadowStart, shadowMid, shadowStop) ==
  << getBlackStop(Zero, Zero), getBlackStop(Zero, shadowStart),
     getBlackStop(sAlpha, shadowMid), getBlackStop(sAlpha, shadowStop) >>

ShadowFrom(sAlpha, shadowMid, shadowStop, shadowSize) ==
  ShadowStops(sAlpha, NSub(shadowMid, shadowSize), shadowMid, shadowStop)

ShadowOver(sAlpha, shadowStop, shadowSize) ==
  ShadowFrom(sAlpha, NSub(shadowStop, shadowSize), shadowStop, shadowSize)

setBackShadow(self, t) ==
  [self EXCEPT !.backShadowImage =
     <<BackgroundGradient(NSub(Num(180), self.peelLineRotation[1]),
         IF canSetLinearEffect(self, "backShadow", t)
         THEN ShadowOver(self.options.backShadowAlpha,
                NSub(t, self.options.backShadowOffset),
                distributeOrLinear(t, self.options.backShadowDistribute,
                                   self.options.backShadowSize))
         ELSE <<>>)>>]

BottomStops(t, darkAlpha, lightAlpha, darkShadowStart, midShadowStart, lightShadowStart) ==
  << getBlackStop(Zero, Zero), getBlackStop(Zero, lightShadowStart),
     getBlackStop(lightAlpha, midShadowStart), getBlackStop(lightAlpha, darkShadowStart),
     getBlackStop(darkAlpha, t) >>

BottomFromMid(t, sSize, offset, darkAlpha, lightAlpha, darkShadowStart, midShadowStart) ==
  BottomStops(t, darkAlpha, lightAlpha, darkShadowStart, midShadowStart,
              NSub(midShadowStart, NSub(NMul(Q(2, 100), sSize), offset)))

BottomFromDark(t, sSize, offset, darkAlpha, lightAlpha, sDistribute, darkShadowStart) ==
  BottomFromMid(t, sSize, offset, darkAlpha, lightAlpha, darkShadowStart,
    NSub(NSub(darkShadowStart, NMul(distributeOrLinear(t, sDistribute, Q(3, 100)), sSize)),
         offset))

BottomShadowStops(t, sSize, offset, darkAlpha, lightAlpha, sDistribute) ==
  BottomFromDark(t, sSize, offset, darkAlpha, lightAlpha, sDistribute,
                 NSub(t, NSub(Q(25, 1000), offset)))

setBottomShadow(self, t) ==
  [self EXCEPT !.bottomShadowImage =
     <<BackgroundGradient(NAdd(self.peelLineRotation[1], Num(180)),
         IF canSetLinearEffect(self, "bottomShadow", t)
         THEN BottomShadowStops(t, self.options.bottomShadowSize,
                self.options.bottomShadowOffset, self.options.bottomShadowDarkAlpha,
                self.options.bottomShadowLightAlpha, self.options.bottomShadowDistribute)
         ELSE <<>>)>>]

\* A number read as a condition: undefined, 0 and NaN are false.
Truthy(v) == v # <<>> /\ v[1] # Zero /\ v[1] # NaN

\* The opacity set on the top layer only.
SetOpacity_TopLayerOnly(self, opacity) == [self EXCEPT !.topOpacity = <<opacity>>]

SetOpacity(self, opacity) ==
  [self EXCEPT !.topOpacity = <<opacity>>, !.backOpacity = <<opacity>>,
               !.bottomShadowOpacity = <<opacity>>]

\* The fade applied below the threshold too.
FadeOpacity_BelowThreshold(n, threshold) == NDiv(NSub(One, n), NSub(One, threshold))

\* The opacity for n, the time along the path or the amount clipped.
FadeOpacity(n, threshold) ==
  IF NGt(n, threshold) THEN NDiv(NSub(One, n), NSub(One, threshold)) ELSE One

\* The amount clipped read also once a time along the path was set.
setFade_OfAmountClippedOnly(self) ==
  IF Truthy(self.fadeThreshold)
  THEN SetOpacity(self, FadeOpacity(getAmountClipped(self), self.fadeThreshold[1]))
  ELSE self

setFade(self) ==
  IF Truthy(self.fadeThreshold)
  THEN SetOpacity(self,
         FadeOpacity(IF self.timeAlongPath # <<>> THEN self.timeAlongPath[1]
                     ELSE getAmountClipped(self),
                     self.fadeThreshold[1]))
  ELSE self

\* setEffects from the peel line distance on.
EffectsAt(self, t) ==
  setFade(setBottomShadow(setBackReflection(setBackShadow(setTopShadow(self, t), t), t), t))

setEffects(self) == EffectsAt(self, getPeelLineDistance(self))

\* The rotation added to the one the instance holds.
SetLine_AddsRotation(self, seg) ==
  [self EXCEPT !.peelLineSegment = <<seg>>,
               !.peelLineRotation =
                  IF @ = <<>> THEN <<LineGetAngle(seg)>> ELSE <<NAdd(@[1], LineGetAngle(seg))>>]

SetLine(self, seg) ==
  [self EXCEPT !.peelLineSegment = <<seg>>, !.peelLineRotation = <<LineGetAngle(seg)>>]

\* An exception in setBackTransform ends the call before setEffects.
EffectsUnlessThrown(self) == IF self.threw # "none" THEN self ELSE setEffects(self)

\* setPeelPosition from the constrained position on.
setPeelLine(self, pos) ==
  EffectsUnlessThrown(
    setBackTransform(setClipping(SetLine(self, getPeelLineSegment(self, pos))), pos))

\* setPeelPosition leaving the reduced radius in the flip constraint.
setPeelPositionAt_KeepsReducedRadius(self, p) ==
  setPeelLine(
    IF self.flipConstraint = 0 THEN self
    ELSE [self EXCEPT !.constraints[self.flipConstraint] =
            OffsetArea(@, getFlipConstraintOffset(self, self.flipConstraint, p))],
    getConstrainedPeelPosition(self, p))

\* setPeelPosition with the position given as a Point (args[0] is returned).
setPeelPositionAt(self, p) == setPeelLine(self, getConstrainedPeelPosition(self, p))

\* With no argument pos is undefined: the first constraint then reads a field
\* of undefined, and with no constraint the call returns at "if (!pos)".
setPeelPosition(self, arg) ==
  IF arg.kind = "none"
  THEN (IF self.constraints = <<>> THEN self ELSE [self EXCEPT !.threw = "TypeError"])
  ELSE setPeelPositionAt(self, getPointOrCorner(self, arg)[1])

\* t is the clamped time and point the point of the path for it.
MoveAlongPath(self, t, point) ==
  setPeelPositionAt([self EXCEPT !.timeAlongPath = <<t>>], point)

TimeAlongPath(self, t) == MoveAlongPath(self, t, PathGetPointForTime(self.path, t))

\* setTimeAlongPath without the clamp.
setTimeAlongPath_Unclamped(self, time) ==
  IF self.path.kind = "none" THEN [self EXCEPT !.threw = "TypeError"]
  ELSE TimeAlongPath(self, time)

\* setTimeAlongPath storing the time before it reads the path.
setTimeAlongPath_StoresFirst(self, time) ==
  IF self.path.kind = "none"
  THEN [self EXCEPT !.timeAlongPath = <<clamp(time)>>, !.threw = "TypeError"]
  ELSE TimeAlongPath(self, clamp(time))

setTimeAlongPath(self, time) ==
  IF self.path.kind = "none" THEN [self EXCEPT !.threw = "TypeError"]
  ELSE TimeAlongPath(self, clamp(time))

\* getOptionalShape keeping the last shape option that is set, not the first.
getOptionalShape_LastSet(self) ==
  IF self.options.circle THEN "circle"
  ELSE IF self.options.path THEN "path"
  ELSE IF self.options.polygon THEN "polygon"
  ELSE IF self.options.rect THEN "rect"
  ELSE "none"

\* The first of rect, polygon, path and circle that is set, "none" if none is.
getOptionalShape(self) ==
  IF self.options.rect THEN "rect"
  ELSE IF self.options.polygon THEN "polygon"
  ELSE IF self.options.path THEN "path"
  ELSE IF self.options.circle THEN "circle"
  ELSE "none"

\* The number SVGClip.getId reads: SVGClip.id, set to 1 when it is undefined
\* (or 0).
getId(self) ==
  IF self.svgClipId = <<>> \/ self.svgClipId[1] = 0 THEN 1 ELSE self.svgClipId[1]

\* 'svg-clip-' + n.
ClipIdOf(n) == <<"svg-clip-", n>>

\* createClipPath leaving the counter at the number getId read.
CreateClipPath_KeepsCounter(self, el, type, n) ==
  [self EXCEPT !.clips = Append(@, [el |-> el, type |-> type, id |-> ClipIdOf(n)]),
               !.svgClipId = <<n>>,
               !.defs = Append(@, ClipIdOf(n))]

\* createClipPath with the number getId read: the static counter is left one
\* above it, and the clipPath of that id is added to the global defs.
CreateClipPath(self, el, type, n) ==
  [self EXCEPT !.clips = Append(@, [el |-> el, type |-> type, id |-> ClipIdOf(n)]),
               !.svgClipId = <<n + 1>>,
               !.defs = Append(@, ClipIdOf(n))]

\* layers is the sequence of the layers found or created, clips the sequence
\* of the SVGClip made, each with the id SVGClip.getId gave it and its shape.
NewClip(self, el, type) == CreateClipPath(self, el, type, getId(self))

setupLayers(self) ==
  LET shape == getOptionalShape(self)
      s1 == [self EXCEPT !.layers = @ \o <<"top", "back", "bottom">>]
      s2 == IF shape # "none"
            THEN LET w  == [s1 EXCEPT !.layers = @ \o <<"top-outer-clip", "back-outer-clip">>]
                     c3 == NewClip(NewClip(NewClip(w, "top", shape), "back", shape),
                                   "bottom", shape)
                 IN  IF self.options.topShadowCreatesShape
                     THEN [c3 EXCEPT !.layers = Append(@, "drop-shadow"),
                                     !.hasTopShadowElement = TRUE]
                     ELSE c3
            ELSE [s1 EXCEPT !.layers = Append(@, "top-shadow"),
                            !.hasTopShadowElement = TRUE]
      s3 == NewClip(NewClip(s2, "top-layer", "polygon"), "back-layer", "polygon")
  IN  [s3 EXCEPT !.layers = @ \o <<"back-shadow", "back-reflection", "bottom-shadow">>,
                 !.usesBoxShadow = (shape = "none")]

\* The element box and the clipping box are functions of width, height and
\* the clippingBoxScale option: getElementBox and getClippingBox above.
setupDimensions(self, w, h) == [self EXCEPT !.width = w, !.height = h]

init(self) ==
  IF self.options.setPeelOnInit THEN setPeelPositionAt(self, self.corner) ELSE self

\* new Peel(el, opt) on an element of the given offsetWidth and offsetHeight,
\* in a process whose SVGClip statics are id and defs.
\* opt holds the user's options already merged with Defaults (setOptions).
Constructor(w, h, opt, id, defs) ==
  LET s0 == [ options |-> opt, width |-> 0, height |-> 0,
              svgClipId |-> id, defs |-> defs,
              corner |-> PtI(0, 0), constraints |-> <<>>, flipConstraint |-> 0,
              path |-> NoPath, timeAlongPath |-> <<>>, fadeThreshold |-> <<>>,
              peelLineSegment |-> <<>>, peelLineRotation |-> <<>>,
              layers |-> <<>>, clips |-> <<>>, hasTopShadowElement |-> FALSE,
              usesBoxShadow |-> FALSE,
              topClip |-> <<>>, backClip |-> <<>>,
              backTransform |-> <<>>, topShadowTransform |-> <<>>,
              topOpacity |-> <<>>, backOpacity |-> <<>>, bottomShadowOpacity |-> <<>>,
              topBoxShadow |-> <<>>, topDropShadow |-> <<>>,
              backShadowImage |-> <<>>, backReflectionImage |-> <<>>,
              bottomShadowImage |-> <<>>,
              threw |-> "none" ]
      s1 == setupDimensions(setupLayers(s0), w, h)
      s2 == setCorner(s1, opt.corner)
      s3 == setMode(s2, opt.mode)
  IN  init(s3)

\* ------------------------------------------------------------------------
\* The state: the fields of one Peel instance, the styles and attributes it
\* has set on its layers, the statics of SVGClip, a second instance of the
\* same process, and the last call made.
\* ------------------------------------------------------------------------

VARIABLES
  constructed,          \* the constructor returned (it did not throw)
  options, width, height, corner, constraints, flipConstraint,
  path, timeAlongPath, fadeThreshold, peelLineSegment, peelLineRotation,
  layers, clips, hasTopShadowElement, usesBoxShadow,
  topClip, backClip, backTransform, topShadowTransform,
  topOpacity, backOpacity, bottomShadowOpacity,
  topBoxShadow, topDropShadow, backShadowImage, backReflectionImage, bottomShadowImage,
  svgClipId,            \* SVGClip.id: <<>> while undefined
  defs,                 \* the ids of the clipPath elements of SVGClip.defs
  peer,                 \* the second instance: <<>> or <<its record>>
  sharedOptions,        \* the two instances were given the same options object
  returned,             \* what the last call returned: <<>> for undefined
  threw,                \* the exception the last call ended in, or "none"
  lastCall,             \* the last call: its name and arguments
  calls,                \* the number of calls made after the constructor
  events,               \* this.events: the listeners the instance keeps track of
  dragEventsSetup,      \* this.dragEventsSetup (undefined is FALSE)
  dragHandler,          \* this.dragHandler is set
  pressHandler,         \* this.pressHandler is set
  isDragging,           \* isDragging of setupDragEvents (undefined is FALSE)
  moveName, endName,    \* moveName and endName of setupDragEvents ("" is undefined)
  listeners,            \* the listeners registered on the elements of the document
  down,                 \* the pointers that are down: "mouse", "touch"
  delivered             \* how often the drag and the press handler were called

fields ==
  <<options, width, height, corner, constraints, flipConstraint,
    path, timeAlongPath, fadeThreshold, peelLineSegment, peelLineRotation,
    layers, clips, hasTopShadowElement, usesBoxShadow,
    topClip, backClip, backTransform, topShadowTransform,
    topOpacity, backOpacity, bottomShadowOpacity,
    topBoxShadow, topDropShadow, backShadowImage, backReflectionImage, bottomShadowImage>>

statics == <<svgClipId, defs>>

\* The state of the drag events: the handlers and the list of the instance,
\* the variables of the closure of setupDragEvents, the listeners of the
\* document and the pointers.
dragState ==
  <<events, dragEventsSetup, dragHandler, pressHandler, isDragging, moveName, endName,
    listeners, down, delivered>>

vars ==
  <<constructed, fields, statics, peer, sharedOptions, returned, threw, lastCall, calls,
    dragState>>

\* After the constructor: this.events is [], no handler is set and nothing
\* is registered.
NoDragEvents ==
  /\ events = <<>> /\ dragEventsSetup = FALSE
  /\ dragHandler = FALSE /\ pressHandler = FALSE
  /\ isDragging = FALSE /\ moveName = "" /\ endName = ""
  /\ listeners = {} /\ down = {}
  /\ delivered = [drag |-> 0, press |-> 0]

\* The instance as the methods read it, at the start of a call.
Self ==
  [ options |-> options, width |-> width, height |-> height,
    corner |-> corner, constraints |-> constraints, flipConstraint |-> flipConstraint,
    path |-> path, timeAlongPath |-> timeAlongPath, fadeThreshold |-> fadeThreshold,
    peelLineSegment |-> peelLineSegment, peelLineRotation |-> peelLineRotation,
    layers |-> layers, clips |-> clips, hasTopShadowElement |-> hasTopShadowElement,
    usesBoxShadow |-> usesBoxShadow,
    topClip |-> topClip, backClip |-> backClip,
    backTransform |-> backTransform, topShadowTransform |-> topShadowTransform,
    topOpacity |-> topOpacity, backOpacity |-> backOpacity,
    bottomShadowOpacity |-> bottomShadowOpacity,
    topBoxShadow |-> topBoxShadow, topDropShadow |-> topDropShadow,
    backShadowImage |-> backShadowImage, backReflectionImage |-> backReflectionImage,
    bottomShadowImage |-> bottomShadowImage,
    svgClipId |-> svgClipId, defs |-> defs,
    threw |-> "none" ]

IsNow(s) ==
  /\ options = s.options /\ width = s.width /\ height = s.height
  /\ corner = s.corner /\ constraints = s.constraints
  /\ flipConstraint = s.flipConstraint
  /\ path = s.path /\ timeAlongPath = s.timeAlongPath
  /\ fadeThreshold = s.fadeThreshold
  /\ peelLineSegment = s.peelLineSegment /\ peelLineRotation = s.peelLineRotation
  /\ layers = s.layers /\ clips = s.clips
  /\ hasTopShadowElement = s.hasTopShadowElement /\ usesBoxShadow = s.usesBoxShadow
  /\ topClip = s.topClip /\ backClip = s.backClip
  /\ backTransform = s.backTransform /\ topShadowTransform = s.topShadowTransform
  /\ topOpacity = s.topOpacity /\ backOpacity = s.backOpacity
  /\ bottomShadowOpacity = s.bottomShadowOpacity
  /\ topBoxShadow = s.topBoxShadow /\ topDropShadow = s.topDropShadow
  /\ backShadowImage = s.backShadowImage /\ backReflectionImage = s.backReflectionImage
  /\ bottomShadowImage = s.bottomShadowImage
  /\ svgClipId = s.svgClipId /\ defs = s.defs
  /\ threw = s.threw

Becomes(s) ==
  /\ options' = s.options /\ width' = s.width /\ height' = s.height
  /\ corner' = s.corner /\ constraints' = s.constraints
  /\ flipConstraint' = s.flipConstraint
  /\ path' = s.path /\ timeAlongPath' = s.timeAlongPath
  /\ fadeThreshold' = s.fadeThreshold
  /\ peelLineSegment' = s.peelLineSegment /\ peelLineRotation' = s.peelLineRotation
  /\ layers' = s.layers /\ clips' = s.clips
  /\ hasTopShadowElement' = s.hasTopShadowElement /\ usesBoxShadow' = s.usesBoxShadow
  /\ topClip' = s.topClip /\ backClip' = s.backClip
  /\ backTransform' = s.backTransform /\ topShadowTransform' = s.topShadowTransform
  /\ topOpacity' = s.topOpacity /\ backOpacity' = s.backOpacity
  /\ bottomShadowOpacity' = s.bottomShadowOpacity
  /\ topBoxShadow' = s.topBoxShadow /\ topDropShadow' = s.topDropShadow
  /\ backShadowImage' = s.backShadowImage /\ backReflectionImage' = s.backReflectionImage
  /\ bottomShadowImage' = s.bottomShadowImage
  /\ svgClipId' = s.svgClipId /\ defs' = s.defs
  /\ threw' = s.threw

Call(op, arg, nums, key) == [op |-> op, arg |-> arg, nums |-> nums, key |-> key]

\* this.options of the second instance is the object of the first when both
\* were given the same one: what one sets in it the other reads.
PeerFollows ==
  peer' = IF peer # <<>> /\ sharedOptions
          THEN <<[peer[1] EXCEPT !.options = options']>>
          ELSE peer

\* A call on the first instance that returns undefined.
OnFirst == PeerFollows /\ UNCHANGED <<constructed, sharedOptions, returned, dragState>>

\* ------------------------------------------------------------------------
\* Inputs
\* ------------------------------------------------------------------------

\* The calls made on an instance after its construction.
MaxCalls == 2

\* offsetWidth and offsetHeight of the element.
Dims == {<<4, 3>>, <<2, 2>>}

\* The options the instance is constructed with.
UserOptions ==
  { Defaults,
    [Defaults EXCEPT !.corner = IdArg(TOP_LEFT)],
    [Defaults EXCEPT !.corner = XYArg(Num(1), Num(1)), !.flipConstraintOffset = 0],
    [Defaults EXCEPT !.mode = "book"],
    [Defaults EXCEPT !.backReflection = TRUE, !.topShadow = FALSE,
                     !.bottomShadowDistribute = FALSE],
    [Defaults EXCEPT !.mode = "calendar", !.setPeelOnInit = FALSE],
    [Defaults EXCEPT !.circle = TRUE],
    [Defaults EXCEPT !.rect = TRUE, !.circle = TRUE],
    [Defaults EXCEPT !.polygon = TRUE, !.path = TRUE, !.topShadowCreatesShape = FALSE] }

CornerArgs ==
  { NoArg, IdArg(TOP_LEFT), IdArg(TOP_RIGHT), IdArg(BOTTOM_LEFT), IdArg(BOTTOM_RIGHT),
    XYArg(Num(1), Num(1)) }

ConstraintArgs ==
  { NoArg, IdArg(TOP_LEFT), IdArg(TOP_RIGHT), IdArg(BOTTOM_LEFT), XYArg(Num(1), Num(1)) }

PositionArgs ==
  { NoArg, IdArg(TOP_LEFT), IdArg(BOTTOM_RIGHT), XYArg(Num(1), Num(1)),
    XYArg(Num(3), Num(-1)), XYArg(Num(-4), Num(-3)), XYArg(Num(-20), Num(-15)) }

NumSeq(s) == [i \in 1..Len(s) |-> Num(s[i])]

PathArgs ==
  { <<>>, NumSeq(<<1, 2, 3>>), NumSeq(<<4, 3, 0, 0>>), NumSeq(<<4, 3, 2, 3, 0, 2>>),
    NumSeq(<<4, 3, 2, 3, 0, 2, -4, -3>>), NumSeq(<<4, 3, 2, 3, 0, 2, -4, -3, 9>>) }

Times == { Num(-1), Zero, Q(1, 2), One, Num(2) }

Thresholds == { Zero, Q(9, 10) }

Modes == { "book", "calendar", "magazine" }

FlipOffsets == { 0, 5 }

\* ------------------------------------------------------------------------
\* Init and the calls
\* ------------------------------------------------------------------------

Init ==
  \E d \in Dims, opt \in UserOptions :
    /\ IsNow(Constructor(d[1], d[2], opt, <<>>, <<>>))
    /\ constructed = (threw = "none")
    /\ peer = <<>> /\ sharedOptions = FALSE /\ returned = <<>> /\ NoDragEvents
    /\ lastCall = Call("constructor", opt.corner, <<>>, opt.mode)
    /\ calls = 0

CanCall == constructed /\ calls < MaxCalls

SetCorner ==
  /\ CanCall
  /\ \E arg \in CornerArgs :
       /\ Becomes(setCorner(Self, arg))
       /\ lastCall' = Call("setCorner", arg, <<>>, "")
  /\ calls' = calls + 1
  /\ OnFirst

AddPeelConstraint ==
  /\ CanCall
  /\ Len(constraints) < MaxConstraints
  /\ \E arg \in ConstraintArgs :
       /\ Becomes(addPeelConstraint(Self, arg))
       /\ lastCall' = Call("addPeelConstraint", arg, <<>>, "")
  /\ calls' = calls + 1
  /\ OnFirst

SetMode ==
  /\ CanCall
  /\ Len(constraints) + 2 <= MaxConstraints
  /\ \E mode \in Modes :
       /\ Becomes(setMode(Self, mode))
       /\ lastCall' = Call("setMode", NoArg, <<>>, mode)
  /\ calls' = calls + 1
  /\ OnFirst

SetFlipConstraintOffset ==
  /\ CanCall
  /\ \E n \in FlipOffsets :
       /\ Becomes(setOption(Self, "flipConstraintOffset", n))
       /\ lastCall' = Call("setOption", NoArg, <<Num(n)>>, "flipConstraintOffset")
  /\ calls' = calls + 1
  /\ OnFirst

SetPeelPath ==
  /\ CanCall
  /\ \E args \in PathArgs :
       /\ Becomes(setPeelPath(Self, args))
       /\ lastCall' = Call("setPeelPath", NoArg, args, "")
  /\ calls' = calls + 1
  /\ OnFirst

SetTimeAlongPath ==
  /\ CanCall
  /\ \E t \in Times :
       /\ Becomes(setTimeAlongPath(Self, t))
       /\ lastCall' = Call("setTimeAlongPath", NoArg, <<t>>, "")
  /\ calls' = calls + 1
  /\ OnFirst

SetFadeThreshold ==
  /\ CanCall
  /\ \E n \in Thresholds :
       /\ Becomes(setFadeThreshold(Self, n))
       /\ lastCall' = Call("setFadeThreshold", NoArg, <<n>>, "")
  /\ calls' = calls + 1
  /\ OnFirst

SetPeelPosition ==
  /\ CanCall
  /\ \E arg \in PositionArgs :
       /\ Becomes(setPeelPosition(Self, arg))
       /\ lastCall' = Call("setPeelPosition", arg, <<>>, "")
  /\ calls' = calls + 1
  /\ OnFirst

Next ==
  \/ SetCorner
  \/ AddPeelConstraint
  \/ SetMode
  \/ SetFlipConstraintOffset
  \/ SetPeelPath
  \/ SetTimeAlongPath
  \/ SetFadeThreshold
  \/ SetPeelPosition

Spec == Init /\ [][Next]_vars

\* ------------------------------------------------------------------------
\* Two instances and clips of their own in one process: the first instance of
\* Init, a second one constructed from the same options object or from one
\* of its own, and SVGClip made apart from any instance.
\* ------------------------------------------------------------------------

PeerDims == { <<4, 3>> }

PeerOptions ==
  { Defaults,
    [Defaults EXCEPT !.mode = "book"],
    [Defaults EXCEPT !.circle = TRUE],
    [Defaults EXCEPT !.rect = TRUE, !.circle = TRUE] }

PeerOptionSettings == { <<"backReflection", TRUE>>, <<"topShadow", FALSE>> }

PeerArgs == { IdArg(TOP_LEFT), XYArg(Num(1), Num(1)) }

PeerPathArgs == { <<>>, NumSeq(<<4, 3, 0, 0>>) }

ClipShapes == { "polygon", "circle" }

\* The fields of the first instance other than the reference to its options.
ownFields ==
  <<width, height, corner, constraints, flipConstraint,
    path, timeAlongPath, fadeThreshold, peelLineSegment, peelLineRotation,
    layers, clips, hasTopShadowElement, usesBoxShadow,
    topClip, backClip, backTransform, topShadowTransform,
    topOpacity, backOpacity, bottomShadowOpacity,
    topBoxShadow, topDropShadow, backShadowImage, backReflectionImage, bottomShadowImage>>

\* The second instance as its methods read it at the start of a call: its
\* own fields and the statics of the process.
Peer == [peer[1] EXCEPT !.svgClipId = svgClipId, !.defs = defs, !.threw = "none"]

\* The fields the second instance holds itself.
Detached(s) == [s EXCEPT !.svgClipId = <<>>, !.defs = <<>>, !.threw = "none"]

\* b = new Peel(el2, o) ended as s: b is assigned unless the constructor
\* threw, the statics are as the constructor left them, and what setOptions
\* and setMode wrote into o is in the options of the first instance when o is
\* the object the first instance was given.
PeerConstructed(s, share) ==
  /\ peer' = IF s.threw = "none" THEN <<Detached(s)>> ELSE peer
  /\ sharedOptions' = IF s.threw = "none" THEN share ELSE sharedOptions
  /\ svgClipId' = s.svgClipId /\ defs' = s.defs
  /\ options' = IF share THEN s.options ELSE options
  /\ threw' = s.threw

ConstructPeer ==
  /\ calls < MaxCalls
  /\ \E d \in PeerDims, share \in BOOLEAN, opt \in PeerOptions :
       /\ PeerConstructed(Constructor(d[1], d[2], IF share THEN options ELSE opt,
                                      svgClipId, defs), share)
       /\ lastCall' = Call("new Peel", opt.corner, <<>>, IF share THEN "same" ELSE "own")
  /\ calls' = calls + 1
  /\ UNCHANGED <<ownFields, constructed, returned, dragState>>

\* new SVGClip(el, shape) apart from the instances.
NewSVGClip ==
  /\ calls < MaxCalls
  /\ \E type \in ClipShapes :
       /\ svgClipId' = NewClip(Self, "el", type).svgClipId
       /\ defs' = NewClip(Self, "el", type).defs
       /\ lastCall' = Call("new SVGClip", NoArg, <<>>, type)
  /\ calls' = calls + 1
  /\ UNCHANGED <<fields, peer, sharedOptions, constructed, returned, threw, dragState>>

CanCallPeer == peer # <<>> /\ calls < MaxCalls

\* A call on the second instance that ended as s.
OnPeer(s) ==
  /\ peer' = <<Detached(s)>>
  /\ options' = IF sharedOptions THEN s.options ELSE options
  /\ threw' = s.threw
  /\ calls' = calls + 1
  /\ UNCHANGED <<ownFields, statics, constructed, sharedOptions, returned, dragState>>

PeerSetOption ==
  /\ CanCallPeer
  /\ \E kv \in PeerOptionSettings :
       /\ OnPeer(setOption(Peer, kv[1], kv[2]))
       /\ lastCall' = Call("peer.setOption", NoArg, <<>>, kv[1])

PeerSetMode ==
  /\ CanCallPeer
  /\ Len(peer[1].constraints) + 2 <= MaxConstraints
  /\ \E mode \in Modes :
       /\ OnPeer(setMode(Peer, mode))
       /\ lastCall' = Call("peer.setMode", NoArg, <<>>, mode)

PeerAddPeelConstraint ==
  /\ CanCallPeer
  /\ Len(peer[1].constraints) < MaxConstraints
  /\ \E arg \in PeerArgs :
       /\ OnPeer(addPeelConstraint(Peer, arg))
       /\ lastCall' = Call("peer.addPeelConstraint", arg, <<>>, "")

PeerSetCorner ==
  /\ CanCallPeer
  /\ \E arg \in PeerArgs :
       /\ OnPeer(setCorner(Peer, arg))
       /\ lastCall' = Call("peer.setCorner", arg, <<>>, "")

PeerSetPeelPath ==
  /\ CanCallPeer
  /\ \E args \in PeerPathArgs :
       /\ OnPeer(setPeelPath(Peer, args))
       /\ lastCall' = Call("peer.setPeelPath", NoArg, args, "")

PeerSetPeelPosition ==
  /\ CanCallPeer
  /\ \E arg \in PeerArgs :
       /\ OnPeer(setPeelPosition(Peer, arg))
       /\ lastCall' = Call("peer.setPeelPosition", arg, <<>>, "")

NextInstances ==
  \/ ConstructPeer
  \/ NewSVGClip
  \/ PeerSetOption
  \/ PeerSetMode
  \/ PeerAddPeelConstraint
  \/ PeerSetCorner
  \/ PeerSetPeelPath
  \/ PeerSetPeelPosition
  \/ SetMode
  \/ SetFlipConstraintOffset
  \/ SetCorner
  \/ AddPeelConstraint
  \/ SetPeelPath
  \/ SetPeelPosition

SpecInstances == Init /\ [][NextInstances]_vars

\* ------------------------------------------------------------------------
\* The primitives called on their own: Circle.constrainPoint,
\* LineSegment.getIntersectPoint and Polygon.getArea for arguments drawn from
\* small sets.  lastCall.nums holds the arguments, returned the result.
\* ------------------------------------------------------------------------

\* The circles: center and radius.
GeometryCircles ==
  { Circle(c, r) : c \in { PtI(0, 0), PtI(2, -1) },
                   r \in { Zero, Num(5), Num(10), Q(5, 2) } }

\* The offsets of the points from the center of the circle.
GeometryOffsets ==
  { PtI(0, 0), PtI(10, 0), PtI(11, 0), PtI(0, 10), PtI(0, -11), PtI(-12, 0),
    PtI(3, 4), PtI(6, 8), PtI(-6, 8), PtI(-9, -12), PtI(5, -12), PtI(1, 1),
    PtI(7, 7), PtI(8, 7), PtI(-7, 8), PtI(10, 10), PtI(2, -1),
    Pt(Q(33, 5), Q(44, 5)), Pt(Q(3, 2), Num(2)), Pt(Q(1, 2), Zero) }

\* The coordinates of the end points of the segments.
Grid == { 0, 5, 10 }

GridPoints == { PtI(x, y) : x \in Grid, y \in Grid }

\* The rectangles: the top-left corner, the width and the height.
RectOrigins == { PtI(0, 0), PtI(-2, 1), Pt(Q(1, 2), Num(3)) }

RectWidths == { One, Num(2), Num(4), Q(5, 2) }

RectHeights == { One, Num(3), Q(3, 2) }

\* The corners top-left, top-right, bottom-right, bottom-left (y grows
\* downwards).
RectCorners(o, w, h) ==
  << o, Pt(NAdd(o.x, w), o.y), Pt(NAdd(o.x, w), NAdd(o.y, h)), Pt(o.x, NAdd(o.y, h)) >>

\* The four points from the k-th on, in the order of the list or against it.
Boundary(pts, k, forward) ==
  [i \in 1..4 |-> pts[((IF forward THEN k + i - 1 ELSE k + 5 - i) % 4) + 1]]

InitGeometry ==
  /\ IsNow(Constructor(4, 3, Defaults, <<>>, <<>>))
  /\ constructed = TRUE
  /\ peer = <<>> /\ sharedOptions = FALSE /\ returned = <<>> /\ NoDragEvents
  /\ lastCall = Call("constructor", Defaults.corner, <<>>, Defaults.mode)
  /\ calls = 0

\* The one call of a primitive a behaviour makes: a primitive keeps no state,
\* and no instance is read or written.
Returns(v) ==
  /\ returned = <<>>
  /\ returned' = <<v>>
  /\ UNCHANGED <<fields, statics, constructed, peer, sharedOptions, threw, calls, dragState>>

ConstrainPoint ==
  \E c \in GeometryCircles, d \in GeometryOffsets :
    /\ Returns(CircleConstrainPoint(c, PointAdd(c.center, d)))
    /\ lastCall' = Call("Circle.constrainPoint", NoArg,
                        <<c.center.x, c.center.y, c.radius,
                          NAdd(c.center.x, d.x), NAdd(c.center.y, d.y)>>, "")

GetIntersectPoint ==
  \E a, b, c, d \in GridPoints :
    /\ Returns(LineGetIntersectPoint(Seg(a, b), Seg(c, d)))
    /\ lastCall' = Call("LineSegment.getIntersectPoint", NoArg,
                        <<a.x, a.y, b.x, b.y, c.x, c.y, d.x, d.y>>, "")

GetArea ==
  \E o \in RectOrigins, w \in RectWidths, h \in RectHeights,
     k \in 0..3, forward \in BOOLEAN :
    /\ Returns(PolygonGetArea(Boundary(RectCorners(o, w, h), k, forward)))
    /\ lastCall' = Call("Polygon.getArea", NoArg, <<o.x, o.y, w, h, Num(k)>>,
                        IF forward THEN "tl,tr,br,bl" ELSE "bl,br,tr,tl")

\* The points whose determinant is taken: those of the grid, and points at
\* 1/2, 1 and 2 times EPSILON / 10 above and below (1, 0).
DeterminantPoints ==
  GridPoints \cup { Pt(One, Q(k, 20 * EpsilonInverse)) : k \in { -4, -2, -1, 1, 2, 4 } }

DeterminantStarts == { PtI(0, 0), PtI(5, 10) }

GetPointDeterminant ==
  \E a \in DeterminantStarts, b \in GridPoints, q \in DeterminantPoints :
    /\ Returns(LineGetPointDeterminant(Seg(a, b), q))
    /\ lastCall' = Call("LineSegment.getPointDeterminant", NoArg,
                        <<a.x, a.y, b.x, b.y, q.x, q.y>>, "")

\* Positions of the effect line, from the corner to past the opposite one.
DistributePositions == { Zero, Q(1, 4), Q(1, 2), Q(3, 4), One, Q(3, 2) }

\* Multipliers: sizes as the options hold them, 0 among them.
DistributeMultipliers == { Zero, Q(1, 50), Q(1, 25), One, Q(3, 2) }

DistributeOrLinear ==
  \E n \in DistributePositions, dist \in BOOLEAN, mult \in DistributeMultipliers :
    /\ Returns(distributeOrLinear(n, dist, mult))
    /\ lastCall' = Call("distributeOrLinear", NoArg, <<n, mult>>,
                        IF dist THEN "distribute" ELSE "linear")

NextGeometry ==
  \/ ConstrainPoint
  \/ GetIntersectPoint
  \/ GetArea
  \/ GetPointDeterminant
  \/ DistributeOrLinear

SpecGeometry == InitGeometry /\ [][NextGeometry]_vars

\* ------------------------------------------------------------------------
\* The calls of Spec, and the last position update made once more with the
\* same argument.
\* ------------------------------------------------------------------------

\* The call made once more is one call beyond those of CanCall.
CanRepeat == constructed /\ calls <= MaxCalls

SetPeelPositionAgain ==
  /\ CanRepeat
  /\ lastCall.op = "setPeelPosition"
  /\ Becomes(setPeelPosition(Self, lastCall.arg))
  /\ lastCall' = lastCall
  /\ calls' = calls + 1
  /\ OnFirst

SetTimeAlongPathAgain ==
  /\ CanRepeat
  /\ lastCall.op = "setTimeAlongPath"
  /\ Becomes(setTimeAlongPath(Self, lastCall.nums[1]))
  /\ lastCall' = lastCall
  /\ calls' = calls + 1
  /\ OnFirst

NextRepeat ==
  \/ Next
  \/ SetPeelPositionAgain
  \/ SetTimeAlongPathAgain

SpecRepeat == Init /\ [][NextRepeat]_vars

\* ------------------------------------------------------------------------
\* The calls of Spec on an instance whose fade threshold and peel path were
\* set right after construction: calls counts the calls after these.
\* ------------------------------------------------------------------------

\* The threshold given to setFadeThreshold: <<>> when it is not called.
FadeThresholds == { <<>>, <<Zero>>, <<Q(1, 2)>>, <<Q(9, 10)>> }

\* The arguments of setPeelPath: <<>> configures no path.
FadePaths == { <<>>, NumSeq(<<4, 3, 0, 0>>), NumSeq(<<4, 3, 2, 3, 0, 2, -4, -3>>) }

FadeOptions == { Defaults, [Defaults EXCEPT !.mode = "book"] }

\* p = new Peel(...); p.setFadeThreshold(th) unless th is <<>>;
\* p.setPeelPath(...args).
Prepared(s, th, args) ==
  setPeelPath(IF th = <<>> THEN s ELSE setFadeThreshold(s, th[1]), args)

InitFade ==
  \E opt \in FadeOptions, th \in FadeThresholds, args \in FadePaths :
    /\ IsNow(Prepared(Constructor(4, 3, opt, <<>>, <<>>), th, args))
    /\ constructed = TRUE
    /\ peer = <<>> /\ sharedOptions = FALSE /\ returned = <<>> /\ NoDragEvents
    /\ lastCall = Call("setPeelPath", NoArg, args, "")
    /\ calls = 0

SpecFade == InitFade /\ [][Next]_vars

\* ------------------------------------------------------------------------
\* The clamping of a candidate position: an instance whose corner and
\* constraints are set by the calls of Spec, and one call of
\* getFlipConstraintOffset or of getConstrainedPeelPosition, whose result is
\* in returned.
\* ------------------------------------------------------------------------

\* The candidate positions.
ConstrainPositions ==
  { PtI(3, 9), PtI(1, 5), PtI(5, 3), PtI(9, 4), PtI(3, 1), PtI(-4, -3), PtI(-3, 9),
    PtI(9, -2) }

GetFlipConstraintOffset ==
  /\ constructed
  /\ \E i \in 1..Len(constraints), pos \in ConstrainPositions :
       /\ Returns(getFlipConstraintOffset(Self, i, pos))
       /\ lastCall' = Call("getFlipConstraintOffset", XYArg(pos.x, pos.y), <<Num(i)>>, "")

GetConstrainedPeelPosition ==
  /\ constructed
  /\ \E pos \in ConstrainPositions :
       /\ Returns(getConstrainedPeelPosition(Self, pos))
       /\ lastCall' = Call("getConstrainedPeelPosition", XYArg(pos.x, pos.y), <<>>, "")

NextConstrain ==
  \/ SetCorner
  \/ AddPeelConstraint
  \/ SetMode
  \/ SetFlipConstraintOffset
  \/ GetFlipConstraintOffset
  \/ GetConstrainedPeelPosition

SpecConstrain == Init /\ [][NextConstrain]_vars

\* ------------------------------------------------------------------------
\* Drag and press events: handleDrag, handlePress and removeEvents called on
\* the instance, and the mouse and touch events of the document in any order.
\* A listener is the element, the event type and the function registered;
\* addEventListener keeps one listener for the same three.
\* ------------------------------------------------------------------------

\* The calls and events of a behaviour.
MaxEvents == 6

Listener(el, type, handler) == [el |-> el, type |-> type, handler |-> handler]

addEvent(ls, el, type, fn) == ls \cup { Listener(el, type, fn) }

removeEvent(ls, el, type, fn) == ls \ { Listener(el, type, fn) }

\* The el argument of handleDrag and handlePress: "" when it is not passed,
\* which stands for this.el.
HitElements == { "", "hit" }

ElementOr(el) == IF el = "" THEN "el" ELSE el

\* The elements a pointer goes down on.
Targets == { "el", "hit", "elsewhere" }

InitEvents ==
  /\ IsNow(Constructor(4, 3, Defaults, <<>>, <<>>))
  /\ constructed = TRUE
  /\ peer = <<>> /\ sharedOptions = FALSE /\ returned = <<>> /\ NoDragEvents
  /\ lastCall = Call("constructor", Defaults.corner, <<>>, Defaults.mode)
  /\ calls = 0

\* A call or an event that touches the state of the drag events only.
OnEvents ==
  /\ calls' = calls + 1
  /\ UNCHANGED <<fields, statics, constructed, peer, sharedOptions, returned, threw>>

\* Peel.addEvent for the two start events: each is registered on el and
\* pushed to this.events.
setupDragEvents(el) ==
  IF dragEventsSetup
  THEN UNCHANGED <<events, listeners, dragEventsSetup>>
  ELSE /\ listeners' = addEvent(addEvent(listeners, el, "mousedown", "dragStart"),
                                 el, "touchstart", "dragStart")
       /\ events' = events \o << Listener(el, "mousedown", "dragStart"),
                                  Listener(el, "touchstart", "dragStart") >>
       /\ dragEventsSetup' = TRUE

HandleDrag ==
  /\ constructed /\ calls < MaxEvents
  /\ \E el \in HitElements :
       /\ setupDragEvents(ElementOr(el))
       /\ lastCall' = Call("handleDrag", NoArg, <<>>, el)
  /\ dragHandler' = TRUE
  /\ UNCHANGED <<pressHandler, isDragging, moveName, endName, down, delivered>>
  /\ OnEvents

HandlePress ==
  /\ constructed /\ calls < MaxEvents
  /\ \E el \in HitElements :
       /\ setupDragEvents(ElementOr(el))
       /\ lastCall' = Call("handlePress", NoArg, <<>>, el)
  /\ pressHandler' = TRUE
  /\ UNCHANGED <<dragHandler, isDragging, moveName, endName, down, delivered>>
  /\ OnEvents

\* The listeners without those of this.events.
RECURSIVE RemoveAll(_, _, _)
RemoveAll(ls, es, i) ==
  IF i > Len(es) THEN ls
  ELSE RemoveAll(removeEvent(ls, es[i].el, es[i].type, es[i].handler), es, i + 1)

RemoveEvents ==
  /\ constructed /\ calls < MaxEvents
  /\ listeners' = RemoveAll(listeners, events, 1)
  /\ events' = <<>>
  /\ lastCall' = Call("removeEvents", NoArg, <<>>, "")
  /\ UNCHANGED <<dragEventsSetup, dragHandler, pressHandler, isDragging, moveName, endName,
                 down, delivered>>
  /\ OnEvents

MoveNameOf(touch) == IF touch THEN "touchmove" ELSE "mousemove"

EndNameOf(touch) == IF touch THEN "touchend" ELSE "mouseup"

PointerOf(touch) == IF touch THEN "touch" ELSE "mouse"

dragStart(touch) ==
  /\ moveName' = MoveNameOf(touch)
  /\ endName' = EndNameOf(touch)
  /\ listeners' = addEvent(addEvent(listeners, "document", MoveNameOf(touch), "dragMove"),
                           "document", EndNameOf(touch), "dragEnd")
  /\ isDragging' = FALSE
  /\ UNCHANGED delivered

dragMove ==
  /\ delivered' = IF dragHandler THEN [delivered EXCEPT !.drag = @ + 1] ELSE delivered
  /\ isDragging' = TRUE
  /\ UNCHANGED <<moveName, endName, listeners>>

dragEnd ==
  /\ delivered' = IF ~isDragging /\ pressHandler THEN [delivered EXCEPT !.press = @ + 1]
                  ELSE delivered
  /\ listeners' = removeEvent(removeEvent(listeners, "document", moveName, "dragMove"),
                              "document", endName, "dragEnd")
  /\ UNCHANGED <<moveName, endName, isDragging>>

\* No listener is registered for the event: nothing runs.
NotHandled(type) ==
  /\ lastCall' = Call(type, NoArg, <<>>, "")
  /\ UNCHANGED <<isDragging, moveName, endName, listeners, delivered>>

\* mousedown or touchstart on an element.
StartOn(touch, type) ==
  /\ \E target \in Targets :
       IF Listener(target, type, "dragStart") \in listeners
       THEN dragStart(touch) /\ lastCall' = Call(type, NoArg, <<>>, "dragStart")
       ELSE NotHandled(type)
  /\ down' = down \cup { PointerOf(touch) }
  /\ UNCHANGED <<events, dragEventsSetup, dragHandler, pressHandler>>

\* mousemove or touchmove, which reaches the document from any element.
MoveOf(type) ==
  /\ IF Listener("document", type, "dragMove") \in listeners
     THEN dragMove /\ lastCall' = Call(type, NoArg, <<>>, "dragMove")
     ELSE NotHandled(type)
  /\ UNCHANGED <<events, dragEventsSetup, dragHandler, pressHandler, down>>

\* mouseup or touchend.
EndOf(touch, type) ==
  /\ IF Listener("document", type, "dragEnd") \in listeners
     THEN dragEnd /\ lastCall' = Call(type, NoArg, <<>>, "dragEnd")
     ELSE NotHandled(type)
  /\ down' = down \ { PointerOf(touch) }
  /\ UNCHANGED <<events, dragEventsSetup, dragHandler, pressHandler>>

MouseDown ==
  /\ constructed /\ calls < MaxEvents
  /\ StartOn(FALSE, "mousedown")
  /\ OnEvents

TouchStart ==
  /\ constructed /\ calls < MaxEvents
  /\ StartOn(TRUE, "touchstart")
  /\ OnEvents

MouseMove ==
  /\ constructed /\ calls < MaxEvents
  /\ MoveOf("mousemove")
  /\ OnEvents

TouchMove ==
  /\ constructed /\ calls < MaxEvents
  /\ MoveOf("touchmove")
  /\ OnEvents

MouseUp ==
  /\ constructed /\ calls < MaxEvents
  /\ EndOf(FALSE, "mouseup")
  /\ OnEvents

TouchEnd ==
  /\ constructed /\ calls < MaxEvents
  /\ EndOf(TRUE, "touchend")
  /\ OnEvents

NextEvents ==
  \/ HandleDrag
  \/ HandlePress
  \/ RemoveEvents
  \/ MouseDown
  \/ TouchStart
  \/ MouseMove
  \/ TouchMove
  \/ MouseUp
  \/ TouchEnd

SpecEvents == InitEvents /\ [][NextEvents]_vars

\* ------------------------------------------------------------------------
\* The peel position dragged along the diagonal of the element, from the
\* corner of the effect towards the opposite corner.
\* ------------------------------------------------------------------------

\* The diagonal is cut into this many steps.
DiagonalSteps == 8

\* The corner of the element opposite the corner of the effect.
OppositeCorner == Pt(NSub(Num(width), corner.x), NSub(Num(height), corner.y))

\* The point k steps along the diagonal from the corner.
DiagonalPoint(k) ==
  PointAdd(corner, PointScale(PointSubtract(OppositeCorner, corner), Q(k, DiagonalSteps)))

DiagonalArg(k) == XYArg(DiagonalPoint(k).x, DiagonalPoint(k).y)

InitDiagonal ==
  \E d \in Dims, id \in {TOP_LEFT, TOP_RIGHT, BOTTOM_LEFT, BOTTOM_RIGHT} :
    /\ IsNow(Constructor(d[1], d[2], [Defaults EXCEPT !.corner = IdArg(id)], <<>>, <<>>))
    /\ constructed = (threw = "none")
    /\ peer = <<>> /\ sharedOptions = FALSE /\ returned = <<>> /\ NoDragEvents
    /\ lastCall = Call("constructor", IdArg(id), <<>>, "none")
    /\ calls = 0

\* setPeelPosition(x, y) with a point of the diagonal.
DragAlongDiagonal ==
  /\ CanCall
  /\ \E k \in 0..DiagonalSteps :
       /\ Becomes(setPeelPosition(Self, DiagonalArg(k)))
       /\ lastCall' = Call("setPeelPosition", DiagonalArg(k), <<>>, "")
  /\ calls' = calls + 1
  /\ OnFirst

NextDiagonal == DragAlongDiagonal

SpecDiagonal == InitDiagonal /\ [][NextDiagonal]_vars

\* ------------------------------------------------------------------------
\* Claims
\* ------------------------------------------------------------------------

\* The point of the call's argument: x and y, or the corner of the id.
ArgPoint(arg) ==
  IF arg.kind = "xy" THEN Pt(arg.x, arg.y)
  ELSE Pt(Num(IF arg.id \in {TOP_RIGHT, BOTTOM_RIGHT} THEN width ELSE 0),
          Num(IF arg.id \in {BOTTOM_LEFT, BOTTOM_RIGHT} THEN height ELSE 0))

\* C1: for every corner id in 0..3 and the width W and height H of the
\* element, getCornerPoint(id) is the point (W if bit 0 of the id is set, else
\* 0; H if bit 1 is set, else 0): TOP_LEFT = (0, 0), TOP_RIGHT = (W, 0),
\* BOTTOM_LEFT = (0, H), BOTTOM_RIGHT = (W, H); and setCorner(id) makes that
\* point the corner.
C1_CornerPointDecodesId ==
  /\ getCornerPoint(Self, TOP_LEFT) = PtI(0, 0)
  /\ getCornerPoint(Self, TOP_RIGHT) = PtI(width, 0)
  /\ getCornerPoint(Self, BOTTOM_LEFT) = PtI(0, height)
  /\ getCornerPoint(Self, BOTTOM_RIGHT) = PtI(width, height)
  /\ (lastCall.op = "setCorner" /\ lastCall.arg.kind = "id"
        => corner = ArgPoint(lastCall.arg))

C1_Witness ==
  /\ lastCall.op = "setCorner" /\ lastCall.arg = IdArg(TOP_RIGHT)
  /\ width > 0 /\ height > 0 /\ width # height
  /\ corner = PtI(width, 0)

\* |corner.y - center.y| of the i-th constraint.
YDistance(i) == NAbs(NSub(corner.y, constraints[i].center.y))

\* C3: after every addPeelConstraint call the flip constraint is the
\* constraint whose center's y is closest to the corner's y, the one added
\* first among those equally close.
C3_FlipConstraintIsClosestInY ==
  lastCall.op = "addPeelConstraint" /\ threw = "none"
    => /\ flipConstraint \in 1..Len(constraints)
       /\ \A j \in 1..Len(constraints) :
            /\ ~NLt(YDistance(j), YDistance(flipConstraint))
            /\ (j < flipConstraint => NLt(YDistance(flipConstraint), YDistance(j)))

\* C5: setTimeAlongPath on an instance with no path throws, for every time,
\* and changes no field of the instance and none of its outputs.
C5_TimeWithoutPathThrowsAndKeepsState ==
  [][lastCall'.op = "setTimeAlongPath" /\ path.kind = "none"
       => threw' = "TypeError" /\ fields' = fields]_vars

C5_Witness ==
  /\ lastCall.op = "setTimeAlongPath" /\ path.kind = "none"
  /\ threw = "TypeError"
  /\ timeAlongPath = <<>> /\ peelLineSegment # <<>>

\* The shape options, in the order getOptionalShape reads them.
ShapeOrder == <<"rect", "polygon", "path", "circle">>

ShapesSet == {i \in 1..Len(ShapeOrder) : options[ShapeOrder[i]]}

FirstShapeSet == CHOOSE i \in ShapesSet : \A j \in ShapesSet : i <= j

\* C6 as the spec states it: with two or more of rect, polygon, path and
\* circle set, the constructor raises an error before it creates any layer
\* or clip.
C6_SeveralShapesRaiseBeforeLayers ==
  Cardinality(ShapesSet) > 1 => ~constructed /\ layers = <<>> /\ clips = <<>>

\* C6, amended: with two or more of rect, polygon, path and circle set, the
\* setup raises no error: the first of them that is set, in this order, is
\* the shape; the top and back layers are wrapped and the three shape clips
\* and the two clipping polygons are created.
C6_FirstShapeSetIsUsed ==
  Cardinality(ShapesSet) > 1
    => /\ Len(clips) = 5
       /\ \A i \in 1..3 : clips[i].type = ShapeOrder[FirstShapeSet]
       /\ \E i \in 1..Len(layers) : layers[i] = "top-outer-clip"
       /\ ~usesBoxShadow
       /\ (options.topShadowCreatesShape => constructed)

C6_Witness ==
  /\ options.rect /\ options.circle /\ constructed
  /\ Len(clips) = 5 /\ clips[1].type = "rect"

\* C7: setPeelPath with a number of arguments other than 4 and 8 throws
\* nothing and changes no field of the instance: the path configured before,
\* or its absence, stays.
C7_OtherCountsAreNoOp ==
  [][lastCall'.op = "setPeelPath" /\ Len(lastCall'.nums) \notin {4, 8}
       => threw' = "none" /\ fields' = fields]_vars

C7_Witness ==
  /\ lastCall.op = "setPeelPath" /\ Len(lastCall.nums) = 6
  /\ path.kind = "line" /\ threw = "none"

\* The i-th constraint applied to the position q, as the forEach of
\* getConstrainedPeelPosition applies it.
ClampBy(i, q) ==
  CircleConstrainPoint(OffsetArea(constraints[i], getFlipConstraintOffset(Self, i, q)), q)

\* The first n constraints applied to p, one after the other.
RECURSIVE ClampUpTo(_, _)
ClampUpTo(n, p) == IF n = 0 THEN p ELSE ClampBy(n, ClampUpTo(n - 1, p))

\* C2: getConstrainedPeelPosition applies the constraints one after another
\* in the order they were added, each to the position the one before it
\* produced; setPeelPosition folds along the position so constrained.  (That
\* the order matters, two circles and a position whose result differs when
\* the circles are exchanged, is the witness.)
C2_ConstraintsApplyInInsertionOrder ==
  lastCall.op = "setPeelPosition" /\ lastCall.arg.kind # "none"
    => /\ getConstrainedPeelPosition(Self, ArgPoint(lastCall.arg))
            = ClampUpTo(Len(constraints), ArgPoint(lastCall.arg))
       /\ peelLineSegment
            = <<getPeelLineSegment(Self, ClampUpTo(Len(constraints), ArgPoint(lastCall.arg)))>>

C2_Witness ==
  /\ lastCall.op = "setPeelPosition" /\ lastCall.arg.kind # "none"
  /\ Len(constraints) = 2 /\ options.flipConstraintOffset = 0
  /\ CircleConstrainPoint(constraints[2],
       CircleConstrainPoint(constraints[1], ArgPoint(lastCall.arg)))
     # CircleConstrainPoint(constraints[1],
         CircleConstrainPoint(constraints[2], ArgPoint(lastCall.arg)))
  /\ peelLineSegment
       = <<getPeelLineSegment(Self, CircleConstrainPoint(constraints[2],
             CircleConstrainPoint(constraints[1], ArgPoint(lastCall.arg))))>>

\* C4: a constraint added at the point H while the corner is C stores the
\* center H and the radius |C - H| at the end of the list, and the list stays
\* as it is under setPeelPosition, setTimeAlongPath and setCorner: the radius
\* reduced by the flip offset is that of a temporary circle only.
C4_StoredConstraintsAreKept ==
  [][/\ lastCall'.op = "addPeelConstraint" /\ threw' = "none"
          => constraints' = Append(constraints,
               Circle(ArgPoint(lastCall'.arg),
                      PointGetLength(PointSubtract(corner, ArgPoint(lastCall'.arg)))))
     /\ lastCall'.op \in {"setPeelPosition", "setTimeAlongPath", "setCorner"}
          => constraints' = constraints]_vars

C4_Witness ==
  /\ lastCall.op = "setPeelPosition" /\ lastCall.arg.kind # "none" /\ threw = "none"
  /\ constraints # <<>> /\ flipConstraint = 1
  /\ NGt(getFlipConstraintOffset(Self, 1, ArgPoint(lastCall.arg)), Zero)
  /\ constraints[1].radius
       = PointGetLength(PointSubtract(corner, constraints[1].center))

\* min(1, max(0, t)).
ClampedTime(t) == IF NLt(t, Zero) THEN Zero ELSE IF NLt(One, t) THEN One ELSE t

\* C8: with a path configured, setTimeAlongPath(t) stores min(1, max(0, t)),
\* so that the stored time is in [0, 1] in every state, and the peel position
\* it sets is the path's point for the clamped time.
C8_TimeIsClampedAndFollowsPath ==
  /\ timeAlongPath # <<>>
       => NLe(Zero, timeAlongPath[1]) /\ NLe(timeAlongPath[1], One)
  /\ lastCall.op = "setTimeAlongPath" /\ path.kind # "none"
       => /\ timeAlongPath = <<ClampedTime(lastCall.nums[1])>>
          /\ peelLineSegment
               = <<getPeelLineSegment(Self, getConstrainedPeelPosition(Self,
                     PathGetPointForTime(path, ClampedTime(lastCall.nums[1]))))>>

C8_Witness ==
  /\ lastCall.op = "setTimeAlongPath" /\ path.kind = "bezier"
  /\ lastCall.nums = <<Num(2)>> /\ timeAlongPath = <<One>>
  /\ threw = "none" /\ peelLineSegment # <<>>

\* C9: setPeelPosition at the corner itself, whatever the corner (a corner id
\* or any x, y) and the dimensions, builds a fold segment of finite, non-zero
\* length whose midpoint is the corner, and a front polygon that is not
\* empty.
C9_FoldAtCornerIsProper ==
  /\ lastCall.op = "setPeelPosition" /\ lastCall.arg.kind # "none"
  /\ ArgPoint(lastCall.arg) = corner /\ constraints = <<>> /\ threw = "none"
  => /\ \A n \in { peelLineSegment[1].p1.x, peelLineSegment[1].p1.y,
                    peelLineSegment[1].p2.x, peelLineSegment[1].p2.y } : IsFinite(n)
     /\ peelLineSegment[1].p1 # peelLineSegment[1].p2
     /\ PointScale(PointAdd(peelLineSegment[1].p1, peelLineSegment[1].p2), Q(1, 2)) = corner
     /\ topClip # <<>>

\* The anchor is one of the four corners of the element, the position set is
\* the corner diagonally opposite, the fade threshold is 0.9 and there is no
\* path and no constraint.
AtOppositeCorner ==
  /\ lastCall.op = "setPeelPosition" /\ lastCall.arg.kind # "none" /\ threw = "none"
  /\ fadeThreshold = <<Q(9, 10)>> /\ path.kind = "none" /\ constraints = <<>>
  /\ corner.x \in {Zero, Num(width)} /\ corner.y \in {Zero, Num(height)}
  /\ ArgPoint(lastCall.arg)
       = Pt(NSub(Num(width), corner.x), NSub(Num(height), corner.y))

\* C10 as the spec states it: at the opposite corner the amount clipped is
\* exactly 1 and the opacity of the top, back and bottom shadow layers is 0.
C10_OppositeCornerClipsAll ==
  AtOppositeCorner
    => /\ getAmountClipped(Self) = One
       /\ topOpacity = <<Zero>> /\ backOpacity = <<Zero>>
       /\ bottomShadowOpacity = <<Zero>>

\* C10, amended: at the opposite corner the fold passes through the center
\* of the element, the amount clipped is exactly 1/2 and, 1/2 not exceeding
\* the threshold, the opacity of the top, back and bottom shadow layers is 1.
C10_OppositeCornerClipsHalf ==
  AtOppositeCorner
    => /\ getAmountClipped(Self) = Q(1, 2)
       /\ topOpacity = <<One>> /\ backOpacity = <<One>>
       /\ bottomShadowOpacity = <<One>>

C10_Witness ==
  /\ AtOppositeCorner /\ corner = PtI(width, height)
  /\ getAmountClipped(Self) = Q(1, 2) /\ topOpacity = <<One>>

\* How far along the diagonal, from the corner (0) to the opposite corner
\* (1), the point p of the diagonal lies.
AlongDiagonal(p) == NDiv(NSub(p.x, corner.x), NSub(OppositeCorner.x, corner.x))

\* getPeelLineDistance() with the position at the point k steps along the
\* diagonal.
DistanceAtStep(k) == getPeelLineDistance(setPeelPosition(Self, DiagonalArg(k)))

\* The distance is at least what it is at every point of the diagonal that is
\* no further from the corner than the position p.
NotBelowEarlier(p, distance) ==
  \A k \in 0..DiagonalSteps :
    NLe(AlongDiagonal(DiagonalPoint(k)), AlongDiagonal(p)) => NLe(DistanceAtStep(k), distance)

\* C11 as the spec states it: with the position on the diagonal from the
\* corner of the effect to the opposite corner and no constraint,
\* getPeelLineDistance() is 0 at the corner, 1 at the opposite corner, and
\* does not decrease when the position moves towards the opposite corner.
C11_DistanceReachesOne ==
  lastCall.op = "setPeelPosition"
    => /\ ArgPoint(lastCall.arg) = corner => getPeelLineDistance(Self) = Zero
       /\ ArgPoint(lastCall.arg) = OppositeCorner => getPeelLineDistance(Self) = One
       /\ NotBelowEarlier(ArgPoint(lastCall.arg), getPeelLineDistance(Self))

\* C11, amended: getPeelLineDistance() is 0 with the position at the corner
\* of the effect and 1/2 with it at the opposite corner (the peel line then
\* runs through the center), and it does not decrease when the position
\* moves along the diagonal towards the opposite corner.
C11_DistanceReachesHalf ==
  lastCall.op = "setPeelPosition"
    => /\ ArgPoint(lastCall.arg) = corner => getPeelLineDistance(Self) = Zero
       /\ ArgPoint(lastCall.arg) = OppositeCorner => getPeelLineDistance(Self) = Q(1, 2)
       /\ NotBelowEarlier(ArgPoint(lastCall.arg), getPeelLineDistance(Self))

C11_Witness ==
  /\ lastCall.op = "setPeelPosition" /\ calls = 2 /\ constraints = <<>>
  /\ ArgPoint(lastCall.arg) = OppositeCorner /\ corner = PtI(0, height)
  /\ width # height
  /\ getPeelLineDistance(Self) = Q(1, 2)

\* C12: setPeelPosition, or setTimeAlongPath, called a second time with the
\* same argument and no other call in between leaves the peel line, its
\* rotation, the time along the path, the constraints and every value set on
\* the layers (clip polygons, transform, shadows, gradients, opacity) as the
\* first call left them; a call that threw throws again.
C12_PositionUpdateIsIdempotent ==
  [][(/\ lastCall.op \in {"setPeelPosition", "setTimeAlongPath"}
      /\ lastCall'.op = lastCall.op /\ lastCall'.arg = lastCall.arg
      /\ lastCall'.nums = lastCall.nums)
        => (fields' = fields /\ threw' = threw)]_vars

C12_Witness ==
  /\ calls = MaxCalls + 1 /\ lastCall.op = "setTimeAlongPath"
  /\ path.kind = "bezier" /\ lastCall.nums = <<Q(1, 2)>>
  /\ timeAlongPath = <<Q(1, 2)>> /\ threw = "none"
  /\ backShadowImage # <<>> /\ ~backShadowImage[1].none

\* The clips the two instances hold, those of the first instance first.
ClipsOfInstances == clips \o (IF peer = <<>> THEN <<>> ELSE peer[1].clips)

\* C13: the clipPath elements made so far, in the order of their creation,
\* have the ids svg-clip-1, svg-clip-2, ... with no gap and no repetition, the
\* counter is one above the number of clips made (one read and one increment
\* for each), and the ids of the clips the instances hold increase strictly,
\* across the two instances.
C13_ClipIdsNeverRepeat ==
  /\ \A i \in 1..Len(defs) : defs[i] = ClipIdOf(i)
  /\ svgClipId = IF defs = <<>> THEN <<>> ELSE <<Len(defs) + 1>>
  /\ \A i, j \in 1..Len(ClipsOfInstances) :
       i < j => ClipsOfInstances[i].id[2] < ClipsOfInstances[j].id[2]
  /\ \A i \in 1..Len(ClipsOfInstances) :
       \E k \in 1..Len(defs) : defs[k] = ClipsOfInstances[i].id

C13_Witness ==
  /\ peer # <<>> /\ Len(clips) >= 2 /\ Len(peer[1].clips) = 5
  /\ lastCall.op = "new SVGClip"
  /\ Len(defs) = Len(ClipsOfInstances) + 1
  /\ svgClipId = <<Len(defs) + 1>>

\* What an instance reads of its configuration and geometry.
ReadBy(s) == <<s.options, s.constraints, s.corner, s.path, s.peelLineSegment>>

CallsOnPeer ==
  { "peer.setOption", "peer.setMode", "peer.addPeelConstraint", "peer.setCorner",
    "peer.setPeelPath", "peer.setPeelPosition" }

CallsOnFirst ==
  { "setOption", "setMode", "addPeelConstraint", "setCorner", "setPeelPath",
    "setPeelPosition" }

\* C14: a call of setOption, setMode, addPeelConstraint, setCorner,
\* setPeelPath or setPeelPosition on one instance leaves the options, the
\* constraints, the corner, the path and the fold line of the other instance
\* as they were, whether the two were constructed from the same options
\* object or not.
C14_InstancesAreIsolated ==
  [][/\ (lastCall'.op \in CallsOnPeer /\ calls' = calls + 1)
          => ReadBy(Self)' = ReadBy(Self)
     /\ (lastCall'.op \in CallsOnFirst /\ calls' = calls + 1 /\ peer # <<>>)
          => (peer' # <<>> /\ ReadBy(peer'[1]) = ReadBy(peer[1]))]_vars

\* The centers of the constraints, in the order of the list.
CentersOf(cs) == [i \in 1..Len(cs) |-> cs[i].center]

\* The options with the three flags the book preset clears.
BookOptions(opt) ==
  [opt EXCEPT !.backReflection = FALSE, !.backShadowDistribute = FALSE,
              !.bottomShadowDistribute = FALSE]

\* What the claim gives for mode applied to an instance of the given
\* constraints and options that ended as s.
PresetApplied(mode, cs, opt, w, h, s) ==
  IF mode = "book"
  THEN /\ Len(s.constraints) = Len(cs) + 2
       /\ SubSeq(s.constraints, 1, Len(cs)) = cs
       /\ SubSeq(CentersOf(s.constraints), Len(cs) + 1, Len(cs) + 2)
            = <<PtI(0, h), PtI(0, 0)>>
       /\ s.options = BookOptions(opt)
  ELSE IF mode = "calendar"
  THEN /\ Len(s.constraints) = Len(cs) + 2
       /\ SubSeq(s.constraints, 1, Len(cs)) = cs
       /\ SubSeq(CentersOf(s.constraints), Len(cs) + 1, Len(cs) + 2)
            = <<PtI(w, 0), PtI(0, 0)>>
       /\ s.options = opt
  ELSE s.constraints = cs /\ s.options = opt

\* C15: setMode('book') on any instance appends a constraint centered at the
\* bottom-left corner and then one at the top-left corner and sets
\* backReflection, backShadowDistribute and bottomShadowDistribute to false;
\* setMode('calendar') appends one at the top-right and then one at the
\* top-left corner and leaves the options alone; any other value leaves both
\* the constraints and the options alone. The constraints already present
\* keep their places. After a setMode call on an instance without
\* constraints the instance is in that state.
C15_PresetsAddTheirConstraints ==
  /\ \A mode \in Modes :
       PresetApplied(mode, constraints, options, width, height, setMode(Self, mode))
  /\ (lastCall.op = "setMode" /\ lastCall.key = "book")
       => /\ Len(constraints) >= 2
          /\ SubSeq(CentersOf(constraints), Len(constraints) - 1, Len(constraints))
               = <<PtI(0, height), PtI(0, 0)>>
          /\ options = BookOptions(options)
  /\ (lastCall.op = "setMode" /\ lastCall.key = "calendar")
       => /\ Len(constraints) >= 2
          /\ SubSeq(CentersOf(constraints), Len(constraints) - 1, Len(constraints))
               = <<PtI(width, 0), PtI(0, 0)>>

C15_Witness ==
  /\ lastCall.op = "setMode" /\ lastCall.key = "book" /\ calls = 2
  /\ CentersOf(constraints) = <<PtI(0, height), PtI(0, 0)>>
  /\ height > 0 /\ ~options.backShadowDistribute /\ ~options.bottomShadowDistribute
  /\ ~options.backReflection

\* The square of the distance between two points.
SquaredDistance(p, q) ==
  NAdd(NMul(NSub(p.x, q.x), NSub(p.x, q.x)), NMul(NSub(p.y, q.y), NSub(p.y, q.y)))

\* r lies from c where p lies from c: r - c is p - c scaled by a factor >= 0.
SameDirection(c, p, r) ==
  /\ NSub(NMul(NSub(r.x, c.x), NSub(p.y, c.y)), NMul(NSub(r.y, c.y), NSub(p.x, c.x))) = Zero
  /\ NGe(NAdd(NMul(NSub(r.x, c.x), NSub(p.x, c.x)), NMul(NSub(r.y, c.y), NSub(p.y, c.y))),
         Zero)

\* The square of the distance is the square of the radius; where the
\* distance of p is irrational, up to the steps Math.sqrt keeps.
AtRadius(d2, r2, exact) ==
  IF exact THEN d2 = r2
  ELSE /\ NGe(d2, r2)
       /\ NLe(NMul(d2, Num((SqrtPrecision - 1) * (SqrtPrecision - 1))),
              NMul(r2, Num(SqrtPrecision * SqrtPrecision)))

HasRationalRoot(a) == NMul(MathSqrt(a), MathSqrt(a)) = a

\* What the claim gives for the circle of center c and radius rad >= 0, the
\* point p and the result r.
ConstrainedAs(c, rad, p, r) ==
  IF NLe(SquaredDistance(p, c), NMul(rad, rad)) THEN r = p
  ELSE /\ SameDirection(c, p, r)
       /\ AtRadius(SquaredDistance(r, c), NMul(rad, rad),
                   HasRationalRoot(SquaredDistance(p, c)))

\* C16: for a circle of radius >= 0 and a point p, constrainPoint(p) is p
\* when the squared distance of p to the center is at most the squared
\* radius, and otherwise the point in the direction of p from the center
\* whose distance to the center is the radius.  On the circle at (0,0) of
\* radius 10, (10,0) stays and (11,0) becomes (10,0).
C16_ConstrainPointClampsToRadius ==
  lastCall.op = "Circle.constrainPoint" =>
    /\ ConstrainedAs(Pt(lastCall.nums[1], lastCall.nums[2]), lastCall.nums[3],
                     Pt(lastCall.nums[4], lastCall.nums[5]), returned[1])
    /\ lastCall.nums = NumSeq(<<0, 0, 10, 10, 0>>) => returned[1] = PtI(10, 0)
    /\ lastCall.nums = NumSeq(<<0, 0, 10, 11, 0>>) => returned[1] = PtI(10, 0)

C16_Witness ==
  /\ lastCall.op = "Circle.constrainPoint"
  /\ lastCall.nums = NumSeq(<<0, 0, 10, 8, 7>>)
  /\ returned # <<>> /\ returned[1] # PtI(8, 7)
  /\ NGt(returned[1].x, returned[1].y)

\* The side of the line through a and b the point p is on: 0 on the line,
\* of opposite signs on the two sides.
SideOf(a, b, p) ==
  NSub(NMul(NSub(b.x, a.x), NSub(p.y, a.y)), NMul(NSub(b.y, a.y), NSub(p.x, a.x)))

\* c and d are not strictly on the same side of the line through a and b.
Straddle(a, b, c, d) == NLe(NMul(SideOf(a, b, c), SideOf(a, b, d)), Zero)

\* The directions of a-b and c-d are parallel (one of them may be 0).
Parallel(a, b, c, d) ==
  NSub(NMul(NSub(b.x, a.x), NSub(d.y, c.y)), NMul(NSub(b.y, a.y), NSub(d.x, c.x))) = Zero

\* What the claim gives for the segments a-b and c-d and the result res
\* (<<>> for none): two segments that are not parallel meet, at the one point
\* of their lines, exactly when each has its ends on both sides of the other
\* (or on it), which is when both times are in [0, 1].
IntersectsAs(a, b, c, d, res) ==
  IF Parallel(a, b, c, d) THEN res = <<>>
  ELSE IF Straddle(a, b, c, d) /\ Straddle(c, d, a, b)
  THEN /\ res # <<>>
       /\ SideOf(a, b, res[1]) = Zero
       /\ SideOf(c, d, res[1]) = Zero
  ELSE res = <<>>

\* C17: getIntersectPoint returns no point when the directions of the two
\* segments are parallel (collinear and overlapping segments included), and
\* otherwise the point where the two lines meet if that point is on both
\* segments, ends included, and no point if it is not.  (0,0)-(10,10) and
\* (0,10)-(10,0) give (5,5); (0,0)-(10,0) and (0,5)-(10,5) give none.
C17_IntersectionOnBothSegments ==
  lastCall.op = "LineSegment.getIntersectPoint" =>
    /\ IntersectsAs(Pt(lastCall.nums[1], lastCall.nums[2]),
                    Pt(lastCall.nums[3], lastCall.nums[4]),
                    Pt(lastCall.nums[5], lastCall.nums[6]),
                    Pt(lastCall.nums[7], lastCall.nums[8]), returned[1])
    /\ lastCall.nums = NumSeq(<<0, 0, 10, 10, 0, 10, 10, 0>>)
         => returned[1] = <<PtI(5, 5)>>
    /\ lastCall.nums = NumSeq(<<0, 0, 10, 0, 0, 5, 10, 5>>) => returned[1] = <<>>
    /\ lastCall.nums = NumSeq(<<0, 0, 10, 0, 5, 0, 10, 0>>) => returned[1] = <<>>

C17_Witness ==
  /\ lastCall.op = "LineSegment.getIntersectPoint"
  /\ lastCall.nums = NumSeq(<<0, 0, 10, 10, 0, 10, 10, 0>>)
  /\ returned = << <<PtI(5, 5)>> >>

\* C18: getArea of the four corners of a rectangle of width W and height H
\* listed along its boundary is W * H when the order is top-left, top-right,
\* bottom-right, bottom-left (y growing downwards) and -(W * H) in the
\* reverse order, whichever corner the list starts at and wherever the
\* rectangle lies.
C18_RectangleAreaKeepsSign ==
  lastCall.op = "Polygon.getArea" =>
    returned[1] = IF lastCall.key = "tl,tr,br,bl"
                  THEN NMul(lastCall.nums[3], lastCall.nums[4])
                  ELSE NNeg(NMul(lastCall.nums[3], lastCall.nums[4]))

C18_Witness ==
  /\ lastCall.op = "Polygon.getArea" /\ lastCall.key = "bl,br,tr,tl"
  /\ lastCall.nums = <<Num(-2), One, Q(5, 2), Num(3), Num(2)>>
  /\ returned = <<Q(-15, 2)>>

\* The rounding the arithmetic of the model may add to a share of the area.
ShareTolerance == Q(1, 1000)

\* amount is between 0 and 1 and is 1 - area / total, which is
\* (total - area) / total, up to the rounding of the model's arithmetic.
ClippedShareOf(amount, area, total) ==
  /\ NGe(amount, Zero) /\ NLe(amount, One)
  /\ NLe(NAbs(NSub(amount, NDiv(NSub(total, area), total))), ShareTolerance)

\* C19: after a setPeelPosition call with a position, for every corner,
\* position and list of constraints, getAmountClipped() is between 0 and 1
\* and is 1 minus the area of the front polygon of the element box divided
\* by width * height.
C19_AmountClippedIsAShare ==
  (lastCall.op = "setPeelPosition" /\ lastCall.arg.kind # "none")
    => ClippedShareOf(getAmountClipped(Self), PolygonGetArea(getTopClipPoints(Self)),
                      Num(width * height))

C19_Witness ==
  /\ lastCall.op = "setPeelPosition" /\ lastCall.arg.kind # "none"
  /\ constraints # <<>> /\ peelLineSegment # <<>>
  /\ NGt(getAmountClipped(Self), Zero) /\ NLt(getAmountClipped(Self), One)
  /\ Len(getTopClipPoints(Self)) >= 5

\* The corners of the box scaled by scale: top-left, top-right, bottom-right,
\* bottom-left.
BoxCorners(w, h, scale) ==
  << PtI(-(scale - 1) * w, -(scale - 1) * h), PtI(scale * w, -(scale - 1) * h),
     PtI(scale * w, scale * h), PtI(-(scale - 1) * w, scale * h) >>

\* The points one pass classifies, in the order it meets them: for the sides
\* top, right, bottom and left, the start of the side and then the point
\* where the fold line crosses it, if it does.
RECURSIVE VisitedFrom(_, _, _)
VisitedFrom(line, cs, i) ==
  IF i > 4 THEN <<>>
  ELSE <<cs[i]>> \o LineGetIntersectPoint(line, Seg(cs[i], cs[(i % 4) + 1]))
                 \o VisitedFrom(line, cs, i + 1)

\* p as the back polygon holds it: mirrored about the vertical center line.
Mirrored(w, p) == Pt(NSub(Num(w), p.x), p.y)

MirroredAll(w, ps) == [i \in 1..Len(ps) |-> Mirrored(w, ps[i])]

\* The visited points of determinant < 0 or 0, and those of determinant > 0
\* or 0.
FrontOf(line, ps) ==
  SelectSeq(ps, LAMBDA p : \/ NLt(LineGetPointDeterminant(line, p), Zero)
                          \/ LineGetPointDeterminant(line, p) = Zero)

BackOf(line, ps) ==
  SelectSeq(ps, LAMBDA p : \/ NGt(LineGetPointDeterminant(line, p), Zero)
                          \/ LineGetPointDeterminant(line, p) = Zero)

InSeq(x, ps) == \E i \in 1..Len(ps) : ps[i] = x

\* The two polygons of a pass over the corners cs, visited being the points
\* it classifies: front and back hold what the rule gives, and each corner
\* is in one of them at least.
ClassifiedAs(line, w, cs, visited, front, back) ==
  /\ front = FrontOf(line, visited)
  /\ back = MirroredAll(w, BackOf(line, visited))
  /\ \A i \in 1..4 : InSeq(cs[i], front) \/ InSeq(Mirrored(w, cs[i]), back)

PassOver(self, cs, polys) ==
  ClassifiedAs(self.peelLineSegment[1], self.width, cs,
               VisitedFrom(self.peelLineSegment[1], cs, 1), polys.top, polys.back)

\* C20: a pass over a box visits its sides in the order top, right, bottom,
\* left and classifies the start of each side and then the point where the
\* fold line crosses the side, if any: a point of determinant < 0 goes to
\* the front polygon as it is, one of determinant > 0 to the back polygon as
\* (2 * centerX - x, y), one of determinant 0 to both; so each corner of
\* the box is in one of the two polygons at least.  This holds of the pass
\* over the clipping box, whose rounded polygons the two clips hold.
C20_EveryPointIsClassified ==
  peelLineSegment # <<>> =>
    /\ PassOver(Self, BoxCorners(width, height, options.clippingBoxScale),
                DistributeBox(Self, getClippingBox(Self), 1, NoPolygons, TRUE))
    /\ topClip = RoundPoints(FrontOf(peelLineSegment[1],
           VisitedFrom(peelLineSegment[1],
                       BoxCorners(width, height, options.clippingBoxScale), 1)))
    /\ backClip = RoundPoints(MirroredAll(width, BackOf(peelLineSegment[1],
           VisitedFrom(peelLineSegment[1],
                       BoxCorners(width, height, options.clippingBoxScale), 1))))

\* A value strictly between -EPSILON and EPSILON is 0, any other is itself.
SnappedAtEpsilon(v) == IF NLt(NAbs(v), Q(1, EpsilonInverse)) THEN Zero ELSE v

\* (b - a) x (q - a): (b.x - a.x) * (q.y - a.y) - (b.y - a.y) * (q.x - a.x).
CrossOfLineAndPoint(a, b, q) ==
  NSub(NMul(NSub(b.x, a.x), NSub(q.y, a.y)), NMul(NSub(b.y, a.y), NSub(q.x, a.x)))

\* C21 as stated: getPointDeterminant(p) of the segment p1->p2 is the cross
\* product of (p2 - p1) against (p - p1), with its sign, a value strictly
\* between -1e-6 and 1e-6 being returned as 0.
C21_DeterminantIsCrossOfLineAndPoint ==
  lastCall.op = "LineSegment.getPointDeterminant" =>
    returned[1] = SnappedAtEpsilon(
                    CrossOfLineAndPoint(Pt(lastCall.nums[1], lastCall.nums[2]),
                                        Pt(lastCall.nums[3], lastCall.nums[4]),
                                        Pt(lastCall.nums[5], lastCall.nums[6])))

\* C21 amended: getPointDeterminant(p) is the cross product of (p - p1)
\* against (p2 - p1), which is the one of (p2 - p1) against (p - p1) with
\* the opposite sign: positive for a point clockwise of the line.  A value
\* strictly between -1e-6 and 1e-6 is returned as 0.
C21_DeterminantIsCrossOfPointAndLine ==
  lastCall.op = "LineSegment.getPointDeterminant" =>
    returned[1] = SnappedAtEpsilon(NNeg(
                    CrossOfLineAndPoint(Pt(lastCall.nums[1], lastCall.nums[2]),
                                        Pt(lastCall.nums[3], lastCall.nums[4]),
                                        Pt(lastCall.nums[5], lastCall.nums[6]))))

C21_Witness ==
  /\ lastCall.op = "LineSegment.getPointDeterminant"
  /\ \/ /\ lastCall.nums = <<Zero, Zero, Num(10), Zero, One, Q(1, 20 * EpsilonInverse)>>
        /\ returned = <<Zero>>
     \/ /\ lastCall.nums = NumSeq(<<0, 0, 10, 0, 5, 5>>)
        /\ returned = <<Num(-50)>>

\* The calls that update the position.
PositionUpdates == { "setPeelPosition", "setTimeAlongPath" }

\* The progress setFade reads: the time along the path once one was set, the
\* amount clipped before that.
ProgressRead == IF timeAlongPath # <<>> THEN timeAlongPath[1] ELSE getAmountClipped(Self)

\* The three layers hold the opacity of the ramp for the progress n: 1 up to
\* the threshold, (1 - n) / (1 - threshold) past it.
FadedTo(n, threshold, opacity) ==
  /\ topOpacity = <<opacity>> /\ backOpacity = <<opacity>>
  /\ bottomShadowOpacity = <<opacity>>
  /\ opacity = IF NLe(n, threshold) THEN One
               ELSE NDiv(NSub(One, n), NSub(One, threshold))
  /\ NGe(opacity, Zero) /\ NLe(opacity, One)
  /\ n = One => opacity = Zero

\* The last call was a position update that ran to its end: it did not throw,
\* and it was not the setPeelPosition() that returns at "if (!pos)".
Updated ==
  /\ lastCall.op \in PositionUpdates /\ calls > 0 /\ threw = "none"
  /\ (lastCall.op = "setPeelPosition" => lastCall.arg.kind # "none")

\* A position update that ran to its end on an instance whose threshold is in
\* (0, 1).
UpdatedWithThreshold ==
  /\ Updated
  /\ fadeThreshold # <<>>
  /\ NGt(fadeThreshold[1], Zero) /\ NLt(fadeThreshold[1], One)

\* C22: with a fade threshold in (0, 1), a position update that returns
\* leaves one opacity on the top layer, the back layer and the bottom-shadow
\* layer: 1 while the progress n is at most the threshold, and
\* (1 - n) / (1 - threshold) past it, which is in [0, 1] and is 0 at n = 1.
\* With the threshold 0 or unset a position update writes no opacity.
C22_FadeIsOneRampOnThreeLayers ==
  /\ [](UpdatedWithThreshold
          => (topOpacity # <<>> /\ FadedTo(ProgressRead, fadeThreshold[1], topOpacity[1])))
  /\ [][(lastCall'.op \in PositionUpdates /\ calls' = calls + 1
           /\ (fadeThreshold = <<>> \/ fadeThreshold[1] = Zero))
          => (/\ topOpacity' = topOpacity /\ backOpacity' = backOpacity
              /\ bottomShadowOpacity' = bottomShadowOpacity)]_vars

C22_Witness ==
  /\ lastCall.op = "setTimeAlongPath" /\ calls = 2 /\ threw = "none"
  /\ fadeThreshold = <<Q(1, 2)>> /\ timeAlongPath = <<One>>
  /\ topOpacity = <<Zero>> /\ backOpacity = <<Zero>> /\ bottomShadowOpacity = <<Zero>>

\* The opacity on the top layer is the one of the ramp for the progress n.
FadedFor(n) == topOpacity = <<FadeOpacity(n, fadeThreshold[1])>>

BucketCorners(rot) ==
  IF NGe(rot, Zero) /\ NLt(rot, Num(90)) THEN <<TOP_RIGHT, BOTTOM_LEFT>>
  ELSE IF NGe(rot, Num(90)) /\ NLt(rot, Num(180)) THEN <<BOTTOM_RIGHT, TOP_LEFT>>
  ELSE IF NGe(rot, Num(180)) /\ NLt(rot, Num(270)) THEN <<BOTTOM_LEFT, TOP_RIGHT>>
  ELSE IF NGe(rot, Num(270)) /\ NLt(rot, Num(360)) THEN <<TOP_LEFT, BOTTOM_RIGHT>>
  ELSE <<>>

\* The distance d is the one of the intersection, if any, of the fold line
\* with the diagonal from a to b scaled by 2: |a - intersection| / |a - b|,
\* and 2 without an intersection.
MeasuredFrom(d, intersect, a, b) ==
  IF intersect = <<>> THEN d = Num(2)
  ELSE d = NDiv(PointGetLength(PointSubtract(a, intersect[1])),
                PointGetLength(PointSubtract(a, b)))

MeasuredBetween(d, seg, a, b) ==
  MeasuredFrom(d, LineGetIntersectPoint(seg, LineScale(Seg(a, b), Num(2))), a, b)

\* A rotation is in one of the four buckets unless it is NaN, the rotation
\* of the fold line of C9; that line meets no segment.
MeasuredOver(d, self, ids) ==
  IF ids = <<>> THEN IsNaN(self.peelLineRotation[1]) /\ d = Num(2)
  ELSE MeasuredBetween(d, self.peelLineSegment[1],
                       getCornerPoint(self, ids[1]), getCornerPoint(self, ids[2]))

\* C24: getPeelLineDistance measures from the corner of the rotation's
\* bucket ([0, 90) TOP_RIGHT to BOTTOM_LEFT, [90, 180) BOTTOM_RIGHT to
\* TOP_LEFT, [180, 270) BOTTOM_LEFT to TOP_RIGHT, [270, 360) TOP_LEFT to
\* BOTTOM_RIGHT): it is 2 when the fold line does not meet the scaled
\* diagonal, and the distance from the corner to the intersection over the
\* length of the diagonal otherwise; for every fold line reached it is in
\* [0, 2].
C24_DistanceIsMeasuredFromBucketCorner ==
  peelLineSegment # <<>> =>
    /\ MeasuredOver(getPeelLineDistance(Self), Self, BucketCorners(peelLineRotation[1]))
    /\ NGe(getPeelLineDistance(Self), Zero)
    /\ NLe(getPeelLineDistance(Self), Num(2))

\* A finite fold line past the scaled diagonal from BOTTOM_RIGHT to TOP_LEFT.
C24_Witness ==
  /\ peelLineSegment # <<>> /\ lastCall.op = "setPeelPosition" /\ threw = "none"
  /\ IsFinite(peelLineRotation[1])
  /\ BucketCorners(peelLineRotation[1]) = <<BOTTOM_RIGHT, TOP_LEFT>>
  /\ LineGetIntersectPoint(peelLineSegment[1],
        LineScale(Seg(getCornerPoint(Self, BOTTOM_RIGHT), getCornerPoint(Self, TOP_LEFT)),
                  Num(2))) = <<>>
  /\ getPeelLineDistance(Self) = Num(2)

\* The bell curve of the statement: mult * 2 * (0.5 - |t - 0.5|).
BellCurve(t, mult) ==
  NMul(NMul(mult, Num(2)), NSub(Q(1, 2), NAbs(NSub(t, Q(1, 2)))))

\* C25: distributeOrLinear(t, useBellCurve, mult) is
\* mult * 2 * (0.5 - |t - 0.5|) with the bell curve and t * mult without, for
\* every t and every mult, 0 included; the bell curve is 0 at t = 0 and at
\* t = 1 and mult at t = 0.5.
C25_DistributeOrLinearScalesByMult ==
  (lastCall.op = "distributeOrLinear" /\ returned # <<>>) =>
    IF lastCall.key = "distribute"
    THEN /\ returned[1] = BellCurve(lastCall.nums[1], lastCall.nums[2])
         /\ lastCall.nums[1] \in { Zero, One } => returned[1] = Zero
         /\ lastCall.nums[1] = Q(1, 2) => returned[1] = lastCall.nums[2]
    ELSE returned[1] = NMul(lastCall.nums[1], lastCall.nums[2])

\* The stops of the back shadow are black ones at 0, at stop - 2 * size, at
\* stop - size and at stop, with the alphas 0, 0, alpha and last.
BackStopsAt(stop, size, alpha, last) ==
  backShadowImage[1].stops =
    << getBlackStop(Zero, Zero), getBlackStop(Zero, NSub(stop, NMul(Num(2), size))),
       getBlackStop(alpha, NSub(stop, size)), getBlackStop(last, stop) >>

BackStopsFor(t, last) ==
  BackStopsAt(NSub(t, options.backShadowOffset),
              distributeOrLinear(t, options.backShadowDistribute, options.backShadowSize),
              options.backShadowAlpha, last)

\* A position update that ran to its end with the back shadow enabled and the
\* peel line distance above 0.
UpdatedWithBackShadow ==
  /\ Updated /\ backShadowImage # <<>>
  /\ options.backShadow /\ NGt(getPeelLineDistance(Self), Zero)

\* C26 as stated: with the back shadow enabled and t > 0 its gradient has four
\* black stops: alpha 0 at 0%, alpha 0 at t - offset - 2 * size', the
\* configured alpha at t - offset - size' and alpha 0 at t - offset, size'
\* being distributeOrLinear(t, distribute, size).
C26_BackShadowEndsTransparent ==
  UpdatedWithBackShadow
    => (~backShadowImage[1].none /\ BackStopsFor(getPeelLineDistance(Self), Zero))

\* C26: with the back shadow enabled and t > 0 its gradient has four black
\* stops: alpha 0 at 0%, alpha 0 at t - offset - 2 * size', the configured
\* alpha at t - offset - size' and the configured alpha again at t - offset,
\* size' being distributeOrLinear(t, distribute, size).
C26_BackShadowEndsAtConfiguredAlpha ==
  UpdatedWithBackShadow
    => (~backShadowImage[1].none
        /\ BackStopsFor(getPeelLineDistance(Self), options.backShadowAlpha))

C26_Witness ==
  /\ UpdatedWithBackShadow /\ ~backShadowImage[1].none
  /\ Len(backShadowImage[1].stops) = 4
  /\ backShadowImage[1].stops[3].a = Q(1, 10) /\ backShadowImage[1].stops[4].a = Q(1, 10)
  /\ backShadowImage[1].stops[1].a = Zero /\ backShadowImage[1].stops[2].a = Zero
  /\ backShadowImage[1].stops[2].pos # backShadowImage[1].stops[3].pos

\* The constraint the last getFlipConstraintOffset call was made for, and the
\* position it was given in the frame of the corner.
OffsetConstraint == constraints[lastCall.nums[1][1]]

LocalPosition ==
  NormalizedBy(PointSubtract(corner, getCenter(Self)),
               PointRotateBackBy(PointSubtract(ArgPoint(lastCall.arg), OffsetConstraint.center),
                                 PointSubtract(corner, OffsetConstraint.center)))

\* C27: the flip-smoothing offset is other than 0 only for the flip
\* constraint and only when both coordinates of the local position are above
\* 0; it is the linear ramp from 0 at a local angle of 45 degrees to the
\* configured offset at 0 degrees, so it is between 0 and the configured
\* offset, and the radius clamped against is never above the stored radius.
C27_FlipOffsetOnlyShrinks ==
  (lastCall.op = "getFlipConstraintOffset" /\ returned # <<>>) =>
    /\ returned[1] # Zero
         => /\ lastCall.nums[1][1] = flipConstraint
            /\ NGt(LocalPosition.x, Zero) /\ NGt(LocalPosition.y, Zero)
            /\ returned[1] = NMul(NDiv(NSub(Num(45), PointGetAngle(LocalPosition)), Num(45)),
                                  Num(options.flipConstraintOffset))
    /\ NGe(returned[1], Zero) /\ NLe(returned[1], Num(options.flipConstraintOffset))
    /\ NLe(OffsetArea(OffsetConstraint, returned[1]).radius, OffsetConstraint.radius)

\* The whole steps of 1/512 in a: a coordinate difference on one scale, so
\* that the squares of two of them add up without rounding.
StepsOf(a) == FloorOf(NMul(a, Num(512)))

SquaredSteps(dx, dy) == Q(dx * dx + dy * dy, 512 * 512)

\* p is inside or on the circle c, up to the steps Math.sqrt keeps.
WithinCircle(c, p) ==
  NLe(SquaredSteps(StepsOf(NSub(p.x, c.center.x)), StepsOf(NSub(p.y, c.center.y))),
      NMul(NMul(c.radius, c.radius),
           Q(SqrtPrecision * SqrtPrecision, (SqrtPrecision - 1) * (SqrtPrecision - 1))))

\* getConstrainedPeelPosition has returned a position.
Constrained == lastCall.op = "getConstrainedPeelPosition" /\ returned # <<>>

LastHasNoOffset ==
  options.flipConstraintOffset = 0 \/ flipConstraint # Len(constraints)

DocumentListeners == { l \in listeners : l.el = "document" }

\* C29: in every order of mousedown, touchstart, mousemove, touchmove, mouseup
\* and touchend, once dragEnd has run and no pointer is down any more, no
\* listener that dragStart registered on the document is left, and the drag
\* handler is not called while no pointer is down.
C29_NoListenerLeftAfterDragEnd ==
  /\ []((lastCall.key = "dragEnd" /\ down = {}) => DocumentListeners = {})
  /\ [][(delivered'.drag # delivered.drag) => (down # {})]_vars

\* The listeners of the start events.
StartListeners == { l \in listeners : l.handler = "dragStart" }

\* C30: after removeEvents() this.events is empty and no start listener is
\* left, and a handleDrag or handlePress call that follows registers the
\* mousedown and the touchstart listener on its element again and keeps track
\* of both.
C30_HandleAfterRemoveRegistersAgain ==
  /\ [](lastCall.op = "removeEvents" => (events = <<>> /\ StartListeners = {}))
  /\ [][(lastCall.op = "removeEvents" /\ lastCall'.op \in { "handleDrag", "handlePress" })
          => (/\ Listener(ElementOr(lastCall'.key), "mousedown", "dragStart") \in listeners'
              /\ Listener(ElementOr(lastCall'.key), "touchstart", "dragStart") \in listeners'
              /\ Len(events') = 2)]_vars

====
